---- MODULE Spec2Model ----
(***************************************************************************)
(* Planning-and-execution pipeline of the agentic chatbot:                 *)
(*   app/services/agentic_chatbot_service.py  (handleTurn, extractor)      *)
(*   app/services/chatbot_service.py          (rule-based extractor)       *)
(*   app/core/planner.py                      (decision policy)            *)
(*   app/core/action_executor.py              (fallback chain, handlers)   *)
(*   app/core/memory_manager.py, app/models/conversation.py (memory)       *)
(*                                                                         *)
(* Numbers in [0,1] are carried as integer percent (0.9 -> 90).            *)
(* An utterance is represented by its literal text; Kws gives the set of   *)
(* keyword substrings that occur in its lower-cased form, which is all     *)
(* the extractor and the urgency detector look at.                         *)
(***************************************************************************)
EXTENDS Integers, Sequences, FiniteSets, TLC

\* ------------------------------------------------------------------ bounds
MaxTurns == 2          \* handleTurn calls started in one behaviour
MaxFallbacks == 2      \* fallback actions in a Decision handed to the executor
MaxCalls == 3          \* calls made on the conversation store in one behaviour

\* --------------------------------------------------------------- constants
HistoryCap == 100      \* execution-history entries kept by _log_execution
LowConfidence == 50    \* context.confidence < 0.5
HighCompleteness == 80 \* completeness >= 0.8
LowCompleteness == 50  \* completeness < 0.5
ToolRelevanceMin == 80 \* best_tool_relevance > 0.8
UrgencyMin == 70       \* urgency_score > 0.7

None == "None"
Users == {"u1", "u2"}
ConvIds == {"c1", "c2"}

Intents == {"outlet_inquiry", "restaurant_search", "product_search",
            "calculation", "general_query", "unknown"}

ActionTypes == {"ask_clarification", "call_calculator", "call_outlet_api",
                "call_restaurant_api", "call_product_api", "call_rag_system",
                "provide_response", "request_missing_info", "finish"}

SlotNames == {"location", "query_type", "cuisine", "category", "expression"}

EmptyMap == [k \in {} |-> ""]

Range(s) == {s[i] : i \in DOMAIN s}

Has(m, k) == k \in DOMAIN m

\* dict.get(k, default)
Get(m, k, default) == IF k \in DOMAIN m THEN m[k] ELSE default

AnyIn(kws, list) == \E i \in DOMAIN list : list[i] \in kws

\* -------------------------------------------------------------- utterances
\* kws: keyword substrings of the lower-cased text; ques / excl: count of
\* '?' and '!' in the text.
Utterance(kws, ques, excl) == [kws |-> kws, ques |-> ques, excl |-> excl]

Utterances ==
  [ m \in { "Tell me about SS2 outlet", "What are the opening hours?",
            "Calculate 10 + 5", "Is there an outlet?",
            "Japanese food in Petaling Jaya", "Japanese restaurants",
            "Something something", "compute the time",
            "I want to buy electronics", "I want food",
            "Japanese restaurants, hurry now!!", "SS2 or KL?" } |->
    CASE m = "Tell me about SS2 outlet"       -> Utterance({"outlet", "ss2"}, 0, 0)
      [] m = "What are the opening hours?"    -> Utterance({"hours", "open", "opening"}, 1, 0)
      [] m = "Calculate 10 + 5"               -> Utterance({"calculate", "+"}, 0, 0)
      [] m = "Is there an outlet?"            -> Utterance({"outlet"}, 1, 0)
      [] m = "Japanese food in Petaling Jaya" -> Utterance({"japanese", "food", "petaling jaya", "petaling"}, 0, 0)
      [] m = "Japanese restaurants"           -> Utterance({"japanese", "restaurant"}, 0, 0)
      [] m = "Something something"            -> Utterance({}, 0, 0)
      [] m = "compute the time"               -> Utterance({"compute", "time"}, 0, 0)
      [] m = "I want to buy electronics"      -> Utterance({"buy", "electronics"}, 0, 0)
      [] m = "I want food"                    -> Utterance({"food"}, 0, 0)
      [] m = "Japanese restaurants, hurry now!!" -> Utterance({"japanese", "restaurant", "hurry", "now"}, 0, 2)
      [] m = "SS2 or KL?"                     -> Utterance({"ss2", "kl"}, 1, 0) ]

Messages == DOMAIN Utterances

\* the utterances sent through handleTurn
TurnMessages ==
  { "Tell me about SS2 outlet", "What are the opening hours?", "Calculate 10 + 5",
    "Is there an outlet?", "Japanese food in Petaling Jaya", "Japanese restaurants",
    "Something something", "I want to buy electronics" }

Kws(m) == Utterances[m].kws

\* ------------------------------------------------------------- keyword lists
OutletKeywords == <<"outlet", "store", "branch", "location">>
HoursKeywords == <<"open", "opening", "hours", "time">>
ContactKeywords == <<"phone", "contact", "number">>
AddressKeywords == <<"address", "where">>
FollowUpKeywords == <<"open", "opening", "hours", "time", "phone", "contact", "address">>
RestaurantKeywords == <<"restaurant", "food", "eat", "dining">>
ProductKeywords == <<"product", "buy", "purchase", "item">>
CalculationKeywords == <<"calculate", "compute", "math", "+", "-", "*", "/", "add", "subtract">>
Cuisines == <<"malaysian", "chinese", "indian", "japanese", "italian", "thai", "american">>
Categories == <<"electronics", "health", "fitness", "food", "beverage", "furniture",
                "home", "garden", "fashion">>
UrgencyKeywords == <<"urgent", "quickly", "asap", "immediately", "now", "fast", "hurry">>

LocationPatterns ==
  [ ss2           |-> {"ss2", "ss 2", "sea park"},
    mid_valley    |-> {"mid valley", "midvalley", "mid-valley"},
    one_utama     |-> {"1 utama", "one utama", "1utama"},
    petaling_jaya |-> {"petaling jaya", "pj", "petaling"},
    kuala_lumpur  |-> {"kuala lumpur", "kl", "kuala"} ]

\* list(set(locations)): the set of location keys with a pattern in the text;
\* callers take element [0] of a list whose order is that of a Python set.
ExtractLocations(m) ==
  {k \in DOMAIN LocationPatterns : LocationPatterns[k] \cap Kws(m) # {}}

\* first element of the list that occurs in the text (for ... break)
FirstIn(kws, list) ==
  LET idx == {i \in DOMAIN list : list[i] \in kws}
  IN  list[CHOOSE i \in idx : \A j \in idx : i <= j]

\* str.title() of the cuisines / categories the extractor knows
Title(w) ==
  CASE w = "malaysian" -> "Malaysian" [] w = "chinese" -> "Chinese"
    [] w = "indian" -> "Indian" [] w = "japanese" -> "Japanese"
    [] w = "italian" -> "Italian" [] w = "thai" -> "Thai"
    [] w = "american" -> "American" [] w = "electronics" -> "Electronics"
    [] w = "health" -> "Health" [] w = "fitness" -> "Fitness"
    [] w = "food" -> "Food" [] w = "beverage" -> "Beverage"
    [] w = "furniture" -> "Furniture" [] w = "home" -> "Home"
    [] w = "garden" -> "Garden" [] w = "fashion" -> "Fashion"
    [] OTHER -> w

QueryType(kws) ==
  IF AnyIn(kws, HoursKeywords) THEN "opening_hours"
  ELSE IF AnyIn(kws, ContactKeywords) THEN "contact"
  ELSE IF AnyIn(kws, AddressKeywords) THEN "address"
  ELSE "general"

Parsed(intent, entities, confidence) ==
  [intent |-> intent, entities |-> entities, confidence |-> confidence]

\* entities of an outlet question: location (when one is named, loc is the
\* element the caller took from the location list) and query_type
OutletEntities(m, loc) ==
  (IF loc = None THEN EmptyMap ELSE [location |-> loc])
     @@ [query_type |-> QueryType(Kws(m))]

LocChoices(m) == IF ExtractLocations(m) = {} THEN {None} ELSE ExtractLocations(m)

\* AgenticChatbotService._parse_intent: the set of results the extractor can
\* return for message m when the latest stored turn has intent latest
\* (None when the conversation has no turn).
ParseIntent(m, latest) ==
  LET kws == Kws(m) IN
  IF AnyIn(kws, OutletKeywords)
    THEN {Parsed("outlet_inquiry", OutletEntities(m, loc), 90) : loc \in LocChoices(m)}
  ELSE IF latest = "outlet_inquiry"
    THEN IF ExtractLocations(m) # {} \/ AnyIn(kws, FollowUpKeywords)
           THEN {Parsed("outlet_inquiry", OutletEntities(m, loc), 80) : loc \in LocChoices(m)}
           ELSE {Parsed("general_query", EmptyMap, 60)}
  ELSE IF AnyIn(kws, RestaurantKeywords)
    THEN {Parsed("restaurant_search",
                 (IF AnyIn(kws, Cuisines) THEN [cuisine |-> Title(FirstIn(kws, Cuisines))] ELSE EmptyMap)
                   @@ (IF loc = None THEN EmptyMap ELSE [location |-> loc]),
                 80) : loc \in LocChoices(m)}
  ELSE IF AnyIn(kws, ProductKeywords)
    THEN {Parsed("product_search",
                 IF AnyIn(kws, Categories) THEN [category |-> Title(FirstIn(kws, Categories))] ELSE EmptyMap,
                 80)}
  ELSE IF AnyIn(kws, CalculationKeywords)
    THEN {Parsed("calculation", [expression |-> m], 90)}
  ELSE {Parsed("general_query", EmptyMap, 40)}

\* AgenticChatbotService._identify_missing_slots
ServiceRequiredSlots(intent) ==
  CASE intent = "outlet_inquiry"    -> <<"location">>
    [] intent = "restaurant_search" -> <<"cuisine">>
    [] intent = "product_search"    -> <<"category">>
    [] intent = "calculation"       -> <<"expression">>
    [] OTHER -> <<>>

IdentifyMissingSlots(intent, entities) ==
  SelectSeq(ServiceRequiredSlots(intent), LAMBDA s : ~Has(entities, s))

\* ------------------------------------------------------------------ planner
\* PlanningContext; turns_count and latest_intent stand for the reference to
\* the ConversationMemory (the planner reads only len(turns) and turns[-1]).
PlanningContext(intent, entities, confidence, m, turns_count, latest) ==
  [ intent |-> intent, entities |-> entities, confidence |-> confidence,
    user_message |-> m, turns_count |-> turns_count, latest_intent |-> latest,
    missing_slots |-> IdentifyMissingSlots(intent, entities),
    available_slots |-> entities ]

\* AgenticPlanner.required_slots
RequiredSlots(intent) ==
  CASE intent = "outlet_inquiry"    -> <<"location">>
    [] intent = "restaurant_search" -> <<"cuisine", "location">>
    [] intent = "product_search"    -> <<"category">>
    [] intent = "calculation"       -> <<"expression">>
    [] OTHER -> <<>>

\* variant: a restaurant search has no critical slot
IsCriticalSlotNoCuisine(intent, slot) ==
  CASE intent = "outlet_inquiry"    -> slot \in {"location"}
    [] intent = "calculation"       -> slot \in {"expression"}
    [] intent = "product_search"    -> slot \in {"category"}
    [] OTHER -> FALSE

\* _is_critical_slot
IsCriticalSlot(intent, slot) ==
  CASE intent = "outlet_inquiry"    -> slot \in {"location"}
    [] intent = "calculation"       -> slot \in {"expression"}
    [] intent = "restaurant_search" -> slot \in {"cuisine"}
    [] intent = "product_search"    -> slot \in {"category"}
    [] OTHER -> FALSE

\* _analyze_completeness: filled / total as a pair, 1.0 when nothing is required
FilledSlots(ctx) ==
  Len(SelectSeq(RequiredSlots(ctx.intent), LAMBDA s : Has(ctx.entities, s)))

TotalSlots(ctx) == Len(RequiredSlots(ctx.intent))

\* completeness >= p/100 and completeness < p/100, without division
CompletenessAtLeast(ctx, p) ==
  TotalSlots(ctx) = 0 \/ FilledSlots(ctx) * 100 >= p * TotalSlots(ctx)

CompletenessBelow(ctx, p) ==
  TotalSlots(ctx) # 0 /\ FilledSlots(ctx) * 100 < p * TotalSlots(ctx)

\* _identify_missing_information
MissingSlots(ctx) ==
  SelectSeq(RequiredSlots(ctx.intent), LAMBDA s : ~Has(ctx.entities, s))

\* variant: no slot is reported as critical
CriticalMissingNone(ctx) == <<>>

CriticalMissing(ctx) ==
  SelectSeq(MissingSlots(ctx), LAMBDA s : IsCriticalSlot(ctx.intent, s))

\* _analyze_available_tools: the tool table in iteration order
ToolOrder == <<"calculator", "outlet_api", "restaurant_api", "product_api", "rag_system">>

ToolRelevance(ctx, tool) ==
  CASE tool = "calculator"     -> IF ctx.intent = "calculation" THEN 100 ELSE 0
    [] tool = "outlet_api"     -> IF ctx.intent = "outlet_inquiry" THEN 100 ELSE 0
    [] tool = "restaurant_api" -> IF ctx.intent = "restaurant_search" THEN 100 ELSE 0
    [] tool = "product_api"    -> IF ctx.intent = "product_search" THEN 100 ELSE 0
    [] tool = "rag_system"     -> 30

ToolConfidence(tool) ==
  CASE tool = "calculator"     -> 95
    [] tool = "outlet_api"     -> 90
    [] tool = "restaurant_api" -> 85
    [] tool = "product_api"    -> 85
    [] tool = "rag_system"     -> 0

\* max(tools.items(), key=relevance): the first tool of maximal relevance
BestTool(ctx) ==
  LET best == {i \in DOMAIN ToolOrder :
                 \A j \in DOMAIN ToolOrder :
                    ToolRelevance(ctx, ToolOrder[j]) <= ToolRelevance(ctx, ToolOrder[i])}
  IN  ToolOrder[CHOOSE i \in best : \A j \in best : i <= j]

\* variant: the relevance read is that of the last tool of the table
BestToolRelevanceLast(ctx) == ToolRelevance(ctx, ToolOrder[Len(ToolOrder)])

BestToolRelevance(ctx) == ToolRelevance(ctx, BestTool(ctx))

ActionMap(tool) ==
  CASE tool = "calculator"     -> "call_calculator"
    [] tool = "outlet_api"     -> "call_outlet_api"
    [] tool = "restaurant_api" -> "call_restaurant_api"
    [] tool = "product_api"    -> "call_product_api"
    [] tool = "rag_system"     -> "call_rag_system"

\* _detect_urgency: 0.3 per urgency keyword in the text, 0.2 for more than one
\* '?', 0.1 per '!', capped at 1.0; in percent.
UrgencyMatches(m) == Cardinality({i \in DOMAIN UrgencyKeywords : UrgencyKeywords[i] \in Kws(m)})

UrgencyRaw(m) ==
  30 * UrgencyMatches(m)
    + (IF Utterances[m].ques > 1 THEN 20 ELSE 0)
    + 10 * Utterances[m].excl

UrgencyScore(m) == IF UrgencyRaw(m) > 100 THEN 100 ELSE UrgencyRaw(m)

\* urgency_score > 0.7 in binary floating point: 0.1 * 7 is 0.7000000000000001,
\* the one sum of these terms that the comparison sees above its decimal value.
UrgencyHigh(m) ==
  \/ UrgencyScore(m) > UrgencyMin
  \/ UrgencyMatches(m) = 0 /\ Utterances[m].ques <= 1 /\ Utterances[m].excl = 7

\* _get_user_friendly_names
FriendlyName(slot) ==
  CASE slot = "location" -> "location or outlet"
    [] slot = "cuisine" -> "cuisine type"
    [] slot = "category" -> "product category"
    [] slot = "expression" -> "calculation"
    [] slot = "query_type" -> "specific information needed"
    [] OTHER -> slot

GetUserFriendlyNames(slots) == [s \in Range(slots) |-> FriendlyName(s)]

\* parameters of a PlannerAction: a dict; is_dict is FALSE for a value on
\* which .get cannot be called, input_data_is_dict is FALSE when the key
\* input_data holds None. Keys a builder does not set keep the value their
\* reader's .get default gives.
NoParams ==
  [ is_dict |-> TRUE, clarification_type |-> "general", response_type |-> "default",
    tool_name |-> "", input_data |-> EmptyMap, input_data_is_dict |-> TRUE, context |-> "",
    missing_slots |-> <<>>, user_friendly_names |-> EmptyMap,
    available_info |-> EmptyMap, urgency_level |-> 50, suggestion_type |-> "",
    intent |-> "" ]

PlannerAction(action_type, parameters, confidence, reasoning, execution_priority) ==
  [ action_type |-> action_type, parameters |-> parameters, confidence |-> confidence,
    reasoning |-> reasoning, execution_priority |-> execution_priority ]

PlannerDecision(primary_action, fallback_actions, decision_reasoning, confidence) ==
  [ primary_action |-> primary_action, fallback_actions |-> fallback_actions,
    decision_reasoning |-> decision_reasoning, confidence |-> confidence ]

CreateClarificationDecision(ctx) ==
  PlannerDecision(
    PlannerAction("ask_clarification",
                  [NoParams EXCEPT !.clarification_type = "intent",
                                   !.context = ctx.user_message],
                  80, "Asking for clarification due to: Low intent confidence", 1),
    << PlannerAction("provide_response",
                     [NoParams EXCEPT !.response_type = "generic_help"],
                     50, "Fallback to generic help response", 2) >>,
    "Intent confidence too low", 80)

\* variant: the request names all missing slots, as _create_information_request_decision does
CreateMissingInfoDecisionAll(ctx) ==
  PlannerDecision(
    PlannerAction("request_missing_info",
                  [NoParams EXCEPT !.missing_slots = MissingSlots(ctx),
                                   !.context = ctx.intent,
                                   !.user_friendly_names = GetUserFriendlyNames(MissingSlots(ctx))],
                  90, "Missing critical information", 1),
    <<>>, "Cannot proceed without critical slots", 90)

CreateMissingInfoDecision(ctx) ==
  PlannerDecision(
    PlannerAction("request_missing_info",
                  [NoParams EXCEPT !.missing_slots = CriticalMissing(ctx),
                                   !.context = ctx.intent,
                                   !.user_friendly_names = GetUserFriendlyNames(CriticalMissing(ctx))],
                  90, "Missing critical information", 1),
    <<>>, "Cannot proceed without critical slots", 90)

CreateToolExecutionDecision(ctx) ==
  PlannerDecision(
    PlannerAction(ActionMap(BestTool(ctx)),
                  [NoParams EXCEPT !.tool_name = BestTool(ctx),
                                   !.input_data = ctx.entities,
                                   !.context = ctx.user_message],
                  ToolConfidence(BestTool(ctx)), "High confidence tool match", 1),
    << PlannerAction("provide_response",
                     [NoParams EXCEPT !.response_type = "partial_information"],
                     60, "Fallback if tool execution fails", 2) >>,
    "Executing best tool", ToolConfidence(BestTool(ctx)))

CreateUrgentResponseDecision(ctx) ==
  PlannerDecision(
    PlannerAction("provide_response",
                  [NoParams EXCEPT !.response_type = "urgent",
                                   !.available_info = ctx.entities,
                                   !.urgency_level = UrgencyScore(ctx.user_message)],
                  70, "High urgency detected", 1),
    <<>>, "Urgent response required", 70)

CreateInformationRequestDecision(ctx) ==
  PlannerDecision(
    PlannerAction("request_missing_info",
                  [NoParams EXCEPT !.missing_slots = MissingSlots(ctx),
                                   !.context = ctx.intent,
                                   !.suggestion_type = "optional_enhancement"],
                  70, "Requesting additional information to improve response", 1),
    <<>>, "Could benefit from additional info", 70)

CreateDefaultResponseDecision(ctx) ==
  PlannerDecision(
    PlannerAction("provide_response",
                  [NoParams EXCEPT !.response_type = "default",
                                   !.available_info = ctx.entities,
                                   !.intent = ctx.intent],
                  60, "Default response with available information", 1),
    <<>>, "Providing response with available information", 60)

\* variant: the critical-slot test comes before the confidence test
MakePlanningDecisionCriticalFirst(ctx) ==
  IF CriticalMissing(ctx) # <<>> THEN CreateMissingInfoDecision(ctx)
  ELSE IF ctx.confidence < LowConfidence THEN CreateClarificationDecision(ctx)
  ELSE IF CompletenessAtLeast(ctx, HighCompleteness) /\ BestToolRelevance(ctx) > ToolRelevanceMin
    THEN CreateToolExecutionDecision(ctx)
  ELSE IF UrgencyHigh(ctx.user_message) THEN CreateUrgentResponseDecision(ctx)
  ELSE IF CompletenessBelow(ctx, LowCompleteness) THEN CreateInformationRequestDecision(ctx)
  ELSE CreateDefaultResponseDecision(ctx)

\* _make_planning_decision
MakePlanningDecision(ctx) ==
  IF ctx.confidence < LowConfidence THEN CreateClarificationDecision(ctx)
  ELSE IF CriticalMissing(ctx) # <<>> THEN CreateMissingInfoDecision(ctx)
  ELSE IF CompletenessAtLeast(ctx, HighCompleteness) /\ BestToolRelevance(ctx) > ToolRelevanceMin
    THEN CreateToolExecutionDecision(ctx)
  ELSE IF UrgencyHigh(ctx.user_message) THEN CreateUrgentResponseDecision(ctx)
  ELSE IF CompletenessBelow(ctx, LowCompleteness) THEN CreateInformationRequestDecision(ctx)
  ELSE CreateDefaultResponseDecision(ctx)

\* ----------------------------------------------------------------- executor
\* response text: which sentence (text), what it is about, and how many times
\* the fallback note was appended
Response(text, about) == [text |-> text, about |-> about, notes |-> 0]

\* ActionResult.data: kind names the key the pipeline looks for
\* ("outlet", "restaurants", "products"); "none" is an absent payload
Data(kind, outlet, query) == [kind |-> kind, outlet |-> outlet, query |-> query]

NoData == Data("none", "", EmptyMap)

ActionResult(success, response, data, error) ==
  [success |-> success, response |-> response, data |-> data, error |-> error]

\* what one handler call does: it returns an ActionResult or raises
\* what a handler call ends in: a returned result or an exception; invoked
\* tells whether the handler reached its call of the external tool
Returned(result) == [raised |-> FALSE, exc |-> None, result |-> result, invoked |-> FALSE]

Raised(exc) ==
  [ raised |-> TRUE, exc |-> exc, result |-> ActionResult(FALSE, Response("", ""), NoData, exc),
    invoked |-> FALSE ]

\* the handler called the external tool before it ended in r
Invoking(r) == [r EXCEPT !.invoked = TRUE]

\* `not v` for the values a parameter holds
Falsy(v) == v \in {"", None}

\* exception classes derived from Exception, which `except Exception` catches
ExceptionClasses == {"AttributeError", "TypeError", "KeyError", "ValueError"}

\* variant: the except clause names only the HTTP client's errors
CaughtHttpOnly(r) == r.exc \in {"TimeoutException", "ConnectError"}

\* try: ... except Exception as e: around each _execute_action call
Caught(r) == r.exc \in ExceptionClasses

\* what the external tool behind a handler does on this call
ToolOutcomes == {"ok", "empty", "bad_status", "raise"}

\* outlets_db the service hands to its executor (keys), and OutletInfo.name
OutletsDb == {"ss2", "mid_valley", "one_utama"}

OutletName(key) ==
  CASE key = "ss2" -> "SS2 Outlet"
    [] key = "mid_valley" -> "Mid Valley Outlet"
    [] key = "one_utama" -> "1 Utama Outlet"
    [] OTHER -> ""

\* str.lower() on the location values that occur
Lower(w) ==
  CASE w = "KL" -> "kl" [] w = "SS2" -> "ss2" [] w = "PJ" -> "pj" [] OTHER -> w

\* _map_location_to_outlet
MapLocationToOutlet(location) ==
  IF location = None \/ location = "" THEN None
  ELSE LET l == Lower(location) IN
       IF l \in {"ss2", "ss 2"} THEN "ss2"
       ELSE IF l \in {"mid_valley", "midvalley", "mid-valley"} THEN "mid_valley"
       ELSE IF l \in {"one_utama", "1_utama", "1utama"} THEN "one_utama"
       ELSE IF l \in {"petaling_jaya", "pj", "petaling"} THEN "ss2"
       ELSE IF l \in {"kuala_lumpur", "kl", "kuala"} THEN "mid_valley"
       ELSE None

HandleAskClarification(action) ==
  Returned(ActionResult(TRUE,
     Response(IF action.parameters.clarification_type = "intent"
                THEN "clarify_intent" ELSE "clarify_general", ""),
     Data("clarification", "", EmptyMap), None))

\* _handle_calculator_call: DSPy or the basic calculator; every exception is
\* caught and ends in the basic calculator, which catches its own
HandleCalculatorCall(action, tool) ==
  IF ~action.parameters.input_data_is_dict
    THEN Raised("AttributeError")
  ELSE IF tool = "ok"
    THEN Invoking(Returned(ActionResult(TRUE,
                    Response("calculation_result", action.parameters.context),
                    Data("calculation", "", EmptyMap), None)))
    ELSE Invoking(Returned(ActionResult(FALSE, Response("calculation_failed", ""), NoData,
                                        "calculation error")))

HandleOutletApiCall(action) ==
  LET input_data == action.parameters.input_data
      location   == Get(input_data, "location", None)
      query_type == Get(input_data, "query_type", "general")
      outlet_key == MapLocationToOutlet(location)
  IN  IF ~action.parameters.input_data_is_dict
        THEN Raised("AttributeError")
      ELSE IF outlet_key = None \/ outlet_key \notin OutletsDb
        THEN Returned(ActionResult(FALSE, Response("outlet_not_found", location), NoData,
                                   "Outlet not found"))
        ELSE Returned(ActionResult(TRUE,
               Response(CASE query_type = "opening_hours" -> "outlet_opening_hours"
                          [] query_type = "contact" -> "outlet_contact"
                          [] query_type = "address" -> "outlet_address"
                          [] OTHER -> "outlet_general", outlet_key),
               Data("outlet", OutletName(outlet_key), EmptyMap), None))

\* query_params: the keys of input_data the handler forwards
QueryParams(input_data, keys) == [k \in (DOMAIN input_data \cap keys) |-> input_data[k]]

\* variant: the call to the restaurant API is not inside try/except
HandleRestaurantApiCallUncaught(action, tool) ==
  LET query == QueryParams(action.parameters.input_data, {"cuisine", "location"}) IN
  IF ~action.parameters.input_data_is_dict THEN Raised("TypeError") ELSE
  Invoking(
  CASE tool = "ok" ->
         Returned(ActionResult(TRUE, Response("restaurants_found", ""),
                               Data("restaurants", "", query), None))
    [] tool = "empty" ->
         Returned(ActionResult(TRUE, Response("restaurants_none", ""),
                               Data("restaurants", "", query), None))
    [] tool = "bad_status" ->
         Returned(ActionResult(FALSE, Response("restaurants_trouble", ""), NoData,
                               "API returned status"))
    [] tool = "raise" -> Raised("TimeoutException"))

\* _handle_restaurant_api_call: building the query and the call are inside
\* try/except Exception ("cuisine" in None raises TypeError there)
HandleRestaurantApiCall(action, tool) ==
  LET query == QueryParams(action.parameters.input_data, {"cuisine", "location"}) IN
  IF ~action.parameters.input_data_is_dict
    THEN Returned(ActionResult(FALSE, Response("restaurants_sorry", ""), NoData, "exception text"))
  ELSE
  Invoking(
  CASE tool = "ok" ->
         Returned(ActionResult(TRUE, Response("restaurants_found", ""),
                               Data("restaurants", "", query), None))
    [] tool = "empty" ->
         Returned(ActionResult(TRUE, Response("restaurants_none", ""),
                               Data("restaurants", "", query), None))
    [] tool = "bad_status" ->
         Returned(ActionResult(FALSE, Response("restaurants_trouble", ""), NoData,
                               "API returned status"))
    [] tool = "raise" ->
         Returned(ActionResult(FALSE, Response("restaurants_sorry", ""), NoData, "exception text")))

HandleProductApiCall(action, tool) ==
  LET query == QueryParams(action.parameters.input_data, {"category", "search_term"}) IN
  IF ~action.parameters.input_data_is_dict
    THEN Returned(ActionResult(FALSE, Response("products_sorry", ""), NoData, "exception text"))
  ELSE
  Invoking(
  CASE tool = "ok" ->
         Returned(ActionResult(TRUE, Response("products_found", ""),
                               Data("products", "", query), None))
    [] tool = "empty" ->
         Returned(ActionResult(TRUE, Response("products_none", ""),
                               Data("products", "", query), None))
    [] tool = "bad_status" ->
         Returned(ActionResult(FALSE, Response("products_trouble", ""), NoData,
                               "API returned status"))
    [] tool = "raise" ->
         Returned(ActionResult(FALSE, Response("products_sorry", ""), NoData, "exception text")))

\* _handle_rag_system_call: input_data.get is called before the query test
\* and outside the try, so an input_data of None raises AttributeError
HandleRagSystemCall(action, tool) ==
  LET input_data == action.parameters.input_data
      rag_type   == Get(input_data, "rag_type", "product")
      query      == Get(input_data, "query", "")
  IN  IF ~action.parameters.input_data_is_dict
        THEN Raised("AttributeError")
      ELSE IF Falsy(query)
        THEN Returned(ActionResult(FALSE, Response("need_query", ""), NoData, "Missing query"))
      ELSE IF rag_type \notin {"product", "outlet"}
        THEN Returned(ActionResult(FALSE, Response("rag_unknown_type", ""), NoData, "Unknown RAG type"))
      ELSE IF tool \in {"ok", "empty"}
        THEN Invoking(Returned(ActionResult(TRUE, Response("rag_summary", query),
                                            Data("rag", "", EmptyMap), None)))
        ELSE Invoking(Returned(ActionResult(FALSE, Response("rag_trouble", ""), NoData,
                                            "rag error")))

\* variant: a response built on available_info needs some
HandleProvideResponseNeedsInfo(action) ==
  IF action.parameters.response_type \in {"urgent", "partial_information"}
       /\ DOMAIN action.parameters.available_info = {}
    THEN Returned(ActionResult(FALSE, Response("limited_information", ""), NoData,
                               "No information available"))
    ELSE Returned(ActionResult(TRUE, Response(action.parameters.response_type, ""),
                               Data("response", "", EmptyMap), None))

HandleProvideResponse(action) ==
  LET response_type == action.parameters.response_type IN
  Returned(ActionResult(TRUE,
     Response(CASE response_type = "urgent" -> "urgent"
                [] response_type = "partial_information" -> "partial_information"
                [] response_type = "generic_help" -> "generic_help"
                [] OTHER -> "default_help", ""),
     Data("response", "", EmptyMap), None))

HandleRequestMissingInfo(action) ==
  IF action.parameters.missing_slots = <<>>
    THEN Returned(ActionResult(TRUE, Response("have_all_info", ""), Data("missing", "", EmptyMap), None))
    ELSE Returned(ActionResult(TRUE,
           Response("please_specify",
                    Get(action.parameters.user_friendly_names, action.parameters.missing_slots[1],
                        action.parameters.missing_slots[1])),
           Data("missing", "", EmptyMap), None))

HandleFinish(action) ==
  Returned(ActionResult(TRUE, Response("anything_else", ""), Data("finish", "", EmptyMap), None))

\* variant: the handler is looked up with action_handlers[action.action_type]
ExecuteActionKeyError(action, tool) ==
  IF action.action_type \notin ActionTypes
    THEN Raised("KeyError")
  ELSE IF action.action_type # "finish" /\ ~action.parameters.is_dict
    THEN Raised("AttributeError")
  ELSE CASE action.action_type = "ask_clarification"    -> HandleAskClarification(action)
         [] action.action_type = "call_calculator"      -> HandleCalculatorCall(action, tool)
         [] action.action_type = "call_outlet_api"      -> HandleOutletApiCall(action)
         [] action.action_type = "call_restaurant_api"  -> HandleRestaurantApiCall(action, tool)
         [] action.action_type = "call_product_api"     -> HandleProductApiCall(action, tool)
         [] action.action_type = "call_rag_system"      -> HandleRagSystemCall(action, tool)
         [] action.action_type = "provide_response"     -> HandleProvideResponse(action)
         [] action.action_type = "request_missing_info" -> HandleRequestMissingInfo(action)
         [] action.action_type = "finish"               -> HandleFinish(action)

\* _execute_action: dispatch on the action type; a handler starts by reading
\* action.parameters with .get, which raises when parameters is no dict
ExecuteAction(action, tool) ==
  IF action.action_type \notin ActionTypes
    THEN Returned(ActionResult(FALSE, Response("Unknown action type", ""), NoData,
                               "No handler for action type: " \o action.action_type))
  ELSE IF action.action_type # "finish" /\ ~action.parameters.is_dict
    THEN Raised("AttributeError")
  ELSE CASE action.action_type = "ask_clarification"    -> HandleAskClarification(action)
         [] action.action_type = "call_calculator"      -> HandleCalculatorCall(action, tool)
         [] action.action_type = "call_outlet_api"      -> HandleOutletApiCall(action)
         [] action.action_type = "call_restaurant_api"  -> HandleRestaurantApiCall(action, tool)
         [] action.action_type = "call_product_api"     -> HandleProductApiCall(action, tool)
         [] action.action_type = "call_rag_system"      -> HandleRagSystemCall(action, tool)
         [] action.action_type = "provide_response"     -> HandleProvideResponse(action)
         [] action.action_type = "request_missing_info" -> HandleRequestMissingInfo(action)
         [] action.action_type = "finish"               -> HandleFinish(action)

\* variant: the early return on success is missing
SucceededIgnored(r) == FALSE

\* the handler result counts as a success of the step: if result.success
Succeeded(r) == ~r.raised /\ r.result.success

\* variant: the fallback result is returned as the handler built it
WithFallbackNoteNone(result) == result

\* result.response += " (Note: Used fallback action ...)"
WithFallbackNote(result) ==
  [result EXCEPT !.response = [@ EXCEPT !.notes = @ + 1]]

\* variant: the error result is built with success=True
ErrorResultSuccess ==
  ActionResult(TRUE, Response("apology", ""), NoData, "All planned actions failed")

\* result returned after the loop over the fallbacks
ErrorResult ==
  ActionResult(FALSE, Response("apology", ""), NoData, "All planned actions failed")

\* variant: the first HistoryCap entries are kept (execution_history[:100])
LogExecutionKeepFirst(history, action, hasResult, success, status) ==
  LET entry == [ action_type |-> action.action_type, status |-> status,
                 confidence |-> action.confidence, reasoning |-> action.reasoning,
                 success |-> IF hasResult THEN success ELSE FALSE ]
      h == Append(history, entry)
  IN  IF Len(h) > HistoryCap THEN SubSeq(h, 1, HistoryCap) ELSE h

\* _log_execution: append, then keep the last HistoryCap entries
LogExecution(history, action, hasResult, success, status) ==
  LET entry == [ action_type |-> action.action_type, status |-> status,
                 confidence |-> action.confidence, reasoning |-> action.reasoning,
                 success |-> IF hasResult THEN success ELSE FALSE ]
      h == Append(history, entry)
  IN  IF Len(h) > HistoryCap THEN SubSeq(h, Len(h) - HistoryCap + 1, Len(h)) ELSE h

\* the chain of a Decision: primary, fallback[0], fallback[1], ...
Chain(d) == <<d.primary_action>> \o d.fallback_actions

\* ------------------------------------------------------ conversation memory
\* ConversationMemory as get_conversation returns it; conversation_id = None
\* stands for the absence marker
Memory(cid, user, state, created_at, updated_at, turns, slots) ==
  [ conversation_id |-> cid, user_id |-> user, state |-> state,
    created_at |-> created_at, updated_at |-> updated_at,
    turns |-> turns, slots |-> slots ]

NoMemory == Memory(None, "", "", 0, 0, <<>>, EmptyMap)

\* the rows stored under one conversation id: the conversations row (present
\* iff exists), its conversation_turns rows in insertion order and its
\* conversation_slots rows
NoRows ==
  [ exists |-> FALSE, user_id |-> "", state |-> "", created_at |-> 0,
    updated_at |-> 0, turns |-> <<>>, slots |-> EmptyMap ]

ConversationTurn(turn_id, user_message, bot_response, intent, entities, timestamp, confidence) ==
  [ turn_id |-> turn_id, user_message |-> user_message, bot_response |-> bot_response,
    intent |-> intent, entities |-> entities, timestamp |-> timestamp,
    confidence |-> confidence ]

ConversationSlot(name, value, confidence, last_updated) ==
  [name |-> name, value |-> value, confidence |-> confidence, last_updated |-> last_updated]

\* ORDER BY timestamp ASC over the stored rows (insertion sort, ties keep
\* the stored order)
RECURSIVE InsertByTimestamp(_, _)
InsertByTimestamp(sorted, t) ==
  IF sorted = <<>> THEN <<t>>
  ELSE IF sorted[Len(sorted)].timestamp <= t.timestamp THEN Append(sorted, t)
  ELSE Append(InsertByTimestamp(SubSeq(sorted, 1, Len(sorted) - 1), t), sorted[Len(sorted)])

RECURSIVE OrderByTimestamp(_)
OrderByTimestamp(rows) ==
  IF rows = <<>> THEN <<>>
  ELSE InsertByTimestamp(OrderByTimestamp(SubSeq(rows, 1, Len(rows) - 1)), rows[Len(rows)])

\* variant: the missing conversations row is not tested for
GetConversationUnchecked(st, cid) ==
  Memory(cid, st[cid].user_id, st[cid].state, st[cid].created_at, st[cid].updated_at,
         OrderByTimestamp(st[cid].turns), st[cid].slots)

\* MemoryManager.get_conversation
GetConversation(st, cid) ==
  IF ~st[cid].exists THEN NoMemory
  ELSE Memory(cid, st[cid].user_id, st[cid].state, st[cid].created_at, st[cid].updated_at,
              OrderByTimestamp(st[cid].turns), st[cid].slots)

\* MemoryManager.save_conversation: INSERT OR REPLACE of the conversation
\* row, of every turn and of every slot. turn_id alone is the primary key of
\* conversation_turns, so a replaced turn row leaves whichever conversation
\* held it; (conversation_id, slot_name) is the key of conversation_slots
SaveConversation(st, mem) ==
  LET cid    == mem.conversation_id
      ids    == {mem.turns[i].turn_id : i \in DOMAIN mem.turns}
      purged == [c \in DOMAIN st |->
                   [st[c] EXCEPT !.turns = SelectSeq(@, LAMBDA t : t.turn_id \notin ids)]]
      \* of the turns written with one turn_id, the last one written stays
      last   == SelectSeq([i \in DOMAIN mem.turns |-> i],
                          LAMBDA i : \A j \in DOMAIN mem.turns :
                                       j > i => mem.turns[j].turn_id # mem.turns[i].turn_id)
      rows   == [k \in DOMAIN last |-> mem.turns[last[k]]]
  IN  [purged EXCEPT ![cid] =
         [ exists |-> TRUE, user_id |-> mem.user_id, state |-> mem.state,
           created_at |-> mem.created_at, updated_at |-> mem.updated_at,
           turns |-> purged[cid].turns \o rows,
           slots |-> mem.slots @@ st[cid].slots ]]

\* MemoryManager.create_conversation: the new memory (saved by the caller's
\* SaveConversation)
NewConversation(user, cid, now) == Memory(cid, user, "active", now, now, <<>>, EmptyMap)

\* variant: the turn is appended to the memory object and never saved
AddTurnToUnsaved(st, cid, turn, now) == st

\* MemoryManager.add_turn with ConversationMemory.add_turn
AddTurnTo(st, cid, turn, now) ==
  LET mem == GetConversation(st, cid) IN
  IF mem.conversation_id = None THEN st
  ELSE SaveConversation(st, [mem EXCEPT !.turns = Append(@, turn), !.updated_at = now])

\* variant: a slot that exists keeps its value (setdefault)
UpdateSlotInKeepFirst(st, cid, name, value, confidence, now) ==
  LET mem == GetConversation(st, cid) IN
  IF mem.conversation_id = None THEN st
  ELSE SaveConversation(st,
         [mem EXCEPT !.slots = @ @@ (name :> ConversationSlot(name, value, confidence, now)),
                     !.updated_at = now])

\* MemoryManager.update_slot with ConversationMemory.update_slot
UpdateSlotIn(st, cid, name, value, confidence, now) ==
  LET mem == GetConversation(st, cid) IN
  IF mem.conversation_id = None THEN st
  ELSE SaveConversation(st,
         [mem EXCEPT !.slots = (name :> ConversationSlot(name, value, confidence, now)) @@ @,
                     !.updated_at = now])

\* variant: the DELETEs have no WHERE clause
DeleteConversationAll(st, cid) == [c \in DOMAIN st |-> NoRows]

\* MemoryManager.delete_conversation: the three DELETEs
DeleteConversation(st, cid) == [st EXCEPT ![cid] = NoRows]

\* variant: every call returns the same identifier
Uuid4Fixed(now) == 0

\* str(uuid.uuid4()) drawn at time now: a value no earlier call returned
Uuid4(now) == now

\* ConversationMemory.get_latest_turn, reduced to the intent the extractor reads
LatestIntent(mem) == IF mem.turns = <<>> THEN None ELSE mem.turns[Len(mem.turns)].intent

\* -------------------------------------------------------------------- state
VARIABLES
  store,              \* conversation id -> stored rows (MemoryManager's database)
  clock,              \* value of the next datetime.now()
  started,            \* handleTurn calls started so far
  pc,                 \* position of the turn in flight in the pipeline ("raised": an
                      \* exception left execute_decision)
  req,                \* arguments of the handleTurn call in flight
  memory,             \* ConversationMemory read at the start of the turn
  ctx,                \* PlanningContext built from the extraction
  decision,           \* PlannerDecision of the turn
  ex,                 \* execute_decision: next fallback and the attempts made
  result,             \* ActionResult returned by execute_decision
  slot_queue,         \* slot updates of _update_slots_from_execution still to make
  execution_history,  \* ActionExecutor.execution_history
  decision_history,   \* AgenticPlanner.decision_history
  decision_log,       \* AgenticChatbotService.decision_log
  out,                \* what the last handleTurn returned
  call,               \* the last MemoryManager call that wrote or read the store
  held,               \* a ConversationMemory a caller got earlier and still holds
  other               \* the locals of a second handleTurn call, suspended at an await

vars == << store, clock, started, pc, req, memory, ctx, decision, ex, result,
           slot_queue, execution_history, decision_history, decision_log, out,
           call, held, other >>

NoReq == [user_id |-> "", message |-> "Something something", conversation_id |-> None]

NoCtx == PlanningContext("unknown", EmptyMap, 0, "Something something", 0, None)

NoDecision == PlannerDecision(PlannerAction("finish", NoParams, 0, "", 1), <<>>, "", 0)

NoResult == ActionResult(FALSE, Response("", ""), NoData, None)

NoEx == [next |-> 1, attempts |-> <<>>]

PlanningDetails(intent, entities, confidence, planned_action, action_reasoning, decision_confidence, execution_success, fallback_used) ==
  [ intent |-> intent, entities |-> entities, confidence |-> confidence,
    planned_action |-> planned_action, action_reasoning |-> action_reasoning,
    decision_confidence |-> decision_confidence,
    execution_success |-> execution_success, fallback_used |-> fallback_used ]

NoOut ==
  [ response |-> Response("", ""), conversation_id |-> None,
    planning_details |-> PlanningDetails("", EmptyMap, 0, "", "", 0, FALSE, FALSE) ]

\* a MemoryManager call: op on conversation_id, the n-th call made from
\* outside handleTurn; arg holds the arguments of an update_slot
Call(op, cid, n) ==
  [op |-> op, conversation_id |-> cid, n |-> n, arg |-> [name |-> "", value |-> "", confidence |-> 0]]

NoCall == Call("none", None, 0)

\* the locals of one process_message_with_planning call
Task(p, r, m, c, d, e, res, q, o) ==
  [ pc |-> p, req |-> r, memory |-> m, ctx |-> c, decision |-> d, ex |-> e,
    result |-> res, slot_queue |-> q, out |-> o ]

\* no second call: one that has not started
NoTask == Task("idle", NoReq, NoMemory, NoCtx, NoDecision, NoEx, NoResult, <<>>, NoOut)

\* one attempt of execute_decision: idx 0 is the primary, idx i fallback i
Attempt(idx, r) ==
  [ idx |-> idx,
    outcome |-> IF r.raised THEN "raised" ELSE IF r.result.success THEN "success" ELSE "failed",
    result |-> r.result, invoked |-> r.invoked ]

\* ------------------------------------------------- handleTurn, step by step
\* variant: a conversation of another user counts as not found and is
\* created for the caller
ReceiveOwned(user, m, cid) ==
  /\ pc = "idle"
  /\ started < MaxTurns
  /\ \/ cid # None
     \/ \E c \in ConvIds : ~store[c].exists
  /\ LET id   == IF cid # None THEN cid
                 ELSE CHOOSE c \in ConvIds : ~store[c].exists
         st1  == IF cid = None
                   THEN SaveConversation(store, NewConversation(user, id, clock))
                   ELSE store
         st2  == IF GetConversation(st1, id).user_id # user
                   THEN SaveConversation(st1, NewConversation(user, id, clock))
                   ELSE st1
     IN  /\ store' = st2
         /\ memory' = GetConversation(st2, id)
         /\ req' = [user_id |-> user, message |-> m, conversation_id |-> id]
  /\ clock' = clock + 1
  /\ started' = started + 1
  /\ pc' = "received"
  /\ call' = Call("handle_turn", req'.conversation_id, call.n)
  /\ UNCHANGED << held, other >>
  /\ UNCHANGED << ctx, decision, ex, result, slot_queue, execution_history,
                  decision_history, decision_log, out >>

\* Step 1: get or create the conversation
Receive(user, m, cid) ==
  /\ pc = "idle"
  /\ started < MaxTurns
  /\ \/ cid # None
     \/ \E c \in ConvIds : ~store[c].exists
  /\ LET id   == IF cid # None THEN cid
                 ELSE CHOOSE c \in ConvIds : ~store[c].exists   \* uuid4()
         st1  == IF cid = None
                   THEN SaveConversation(store, NewConversation(user, id, clock))
                   ELSE store
         st2  == IF GetConversation(st1, id).conversation_id = None
                   THEN SaveConversation(st1, NewConversation(user, id, clock))
                   ELSE st1
     IN  /\ store' = st2
         /\ memory' = GetConversation(st2, id)
         /\ req' = [user_id |-> user, message |-> m, conversation_id |-> id]
  /\ clock' = clock + 1
  /\ started' = started + 1
  /\ pc' = "received"
  /\ call' = Call("handle_turn", req'.conversation_id, call.n)
  /\ UNCHANGED << held, other >>
  /\ UNCHANGED << ctx, decision, ex, result, slot_queue, execution_history,
                  decision_history, decision_log, out >>

\* variant: the extracted entities are written to the slots at once
ExtractStoring ==
  /\ pc = "received"
  /\ \E p \in ParseIntent(req.message, LatestIntent(memory)) :
       /\ ctx' = PlanningContext(p.intent, p.entities, p.confidence, req.message,
                                 Len(memory.turns), LatestIntent(memory))
       /\ store' = IF DOMAIN p.entities = {} THEN store
                   ELSE LET k == CHOOSE k \in DOMAIN p.entities : TRUE
                        IN  UpdateSlotIn(store, req.conversation_id, k, p.entities[k], 90, clock)
  /\ pc' = "extracted"
  /\ UNCHANGED << call, held, other >>
  /\ UNCHANGED << clock, started, req, memory, decision, ex, result, slot_queue,
                  execution_history, decision_history, decision_log, out >>

\* Steps 2 and 3: parse intent and entities, build the planning context
Extract ==
  /\ pc = "received"
  /\ \E p \in ParseIntent(req.message, LatestIntent(memory)) :
       ctx' = PlanningContext(p.intent, p.entities, p.confidence, req.message,
                              Len(memory.turns), LatestIntent(memory))
  /\ pc' = "extracted"
  /\ UNCHANGED << call, held, other >>
  /\ UNCHANGED << store, clock, started, req, memory, decision, ex, result, slot_queue,
                  execution_history, decision_history, decision_log, out >>

\* Step 4: AgenticPlanner.plan_next_action
Plan ==
  /\ pc = "extracted"
  /\ decision' = MakePlanningDecision(ctx)
  /\ decision_history' = Append(decision_history, MakePlanningDecision(ctx))
  /\ ex' = NoEx
  /\ pc' = "planned"
  /\ UNCHANGED << call, held, other >>
  /\ UNCHANGED << store, clock, started, req, memory, ctx, result, slot_queue,
                  execution_history, decision_log, out >>

\* the loop moves on to the next fallback
NextFallback(i) == i + 1

\* execute_decision after a failed attempt, when n fallbacks have been tried:
\* the next fallback is tried, or the loop is over and the error result is
\* returned
Exhausted(d, n) == n >= Len(d.fallback_actions)

\* Step 5: execute_decision, the primary action
ExecPrimary ==
  /\ pc = "planned"
  /\ \E tool \in ToolOutcomes :
       LET action == decision.primary_action
           r      == ExecuteAction(action, tool)
       IN  /\ ex' = [ex EXCEPT !.attempts = Append(@, Attempt(0, r))]
           /\ execution_history' =
                IF Succeeded(r)
                  THEN LogExecution(execution_history, action, TRUE, r.result.success, "success")
                ELSE IF r.raised /\ Caught(r)
                  THEN LogExecution(execution_history, action, FALSE, FALSE, "error")
                ELSE execution_history
           /\ IF Succeeded(r)
                THEN result' = r.result /\ pc' = "executed"
                ELSE IF r.raised /\ ~Caught(r)
                  THEN result' = result /\ pc' = "raised"
                ELSE IF Exhausted(decision, 0)
                  THEN result' = ErrorResult /\ pc' = "executed"
                  ELSE result' = result /\ pc' = "fallback"
  /\ UNCHANGED << call, held, other >>
  /\ UNCHANGED << store, clock, started, req, memory, ctx, decision, slot_queue,
                  decision_history, decision_log, out >>

\* Step 5: execute_decision, one iteration of the loop over the fallbacks
ExecFallback ==
  /\ pc = "fallback"
  /\ ex.next <= Len(decision.fallback_actions)
  /\ \E tool \in ToolOutcomes :
       LET action == decision.fallback_actions[ex.next]
           r      == ExecuteAction(action, tool)
       IN  /\ ex' = [next |-> NextFallback(ex.next),
                     attempts |-> Append(ex.attempts, Attempt(ex.next, r))]
           /\ execution_history' =
                IF Succeeded(r)
                  THEN LogExecution(execution_history, action, TRUE, r.result.success,
                                    "fallback_success")
                ELSE IF r.raised /\ Caught(r)
                  THEN LogExecution(execution_history, action, FALSE, FALSE, "fallback_error")
                ELSE execution_history
           /\ IF Succeeded(r)
                THEN result' = WithFallbackNote(r.result) /\ pc' = "executed"
                ELSE IF r.raised /\ ~Caught(r)
                  THEN result' = result /\ pc' = "raised"
                ELSE IF Exhausted(decision, ex.next)
                  THEN result' = ErrorResult /\ pc' = "executed"
                  ELSE result' = result /\ pc' = "fallback"
  /\ UNCHANGED << call, held, other >>
  /\ UNCHANGED << store, clock, started, req, memory, ctx, decision, slot_queue,
                  decision_history, decision_log, out >>

\* insertion order of the entities dict built by _parse_intent
EntityOrder(intent) ==
  IF intent = "restaurant_search"
    THEN <<"cuisine", "location", "query_type", "category", "expression">>
    ELSE <<"location", "query_type", "cuisine", "category", "expression">>

SlotUpdate(name, value, confidence) == [name |-> name, value |-> value, confidence |-> confidence]

\* _update_slots_from_execution: the update_slot calls it makes, in order
SlotUpdates(action_result, intent, entities) ==
  (IF action_result.success /\ action_result.data.kind # "none"
     THEN CASE action_result.data.kind = "outlet" ->
                 << SlotUpdate("last_outlet_accessed", action_result.data.outlet, 90) >>
            [] action_result.data.kind = "restaurants" ->
                 << SlotUpdate("last_restaurant_search", action_result.data.query, 80) >>
            [] action_result.data.kind = "products" ->
                 << SlotUpdate("last_product_search", action_result.data.query, 80) >>
            [] OTHER -> <<>>
     ELSE <<>>)
  \o [ i \in 1..Cardinality(DOMAIN entities) |->
         LET keys == SelectSeq(EntityOrder(intent), LAMBDA k : Has(entities, k))
         IN  SlotUpdate(keys[i], entities[keys[i]], 90) ]

\* variant: step 6 creates the conversation again when it is no longer stored
AddTurnCreating ==
  /\ pc = "executed"
  /\ LET turn == ConversationTurn(Uuid4(clock), req.message, result.response, ctx.intent,
                                  ctx.entities, clock, ctx.confidence)
         st   == IF store[req.conversation_id].exists THEN store
                 ELSE SaveConversation(store,
                        NewConversation(req.user_id, req.conversation_id, clock))
     IN  store' = AddTurnTo(st, req.conversation_id, turn, clock + 1)
  /\ clock' = clock + 2
  /\ slot_queue' = SlotUpdates(result, ctx.intent, ctx.entities)
  /\ pc' = "turn_added"
  /\ call' = Call("handle_turn", req.conversation_id, call.n)
  /\ UNCHANGED << held, other >>
  /\ UNCHANGED << started, req, memory, ctx, decision, ex, result, execution_history,
                  decision_history, decision_log, out >>

\* Step 6: create the turn and add it to the conversation
AddTurn ==
  /\ pc = "executed"
  /\ LET turn == ConversationTurn(Uuid4(clock), req.message, result.response, ctx.intent,
                                  ctx.entities, clock, ctx.confidence)
     IN  store' = AddTurnTo(store, req.conversation_id, turn, clock + 1)
  /\ clock' = clock + 2
  /\ slot_queue' = SlotUpdates(result, ctx.intent, ctx.entities)
  /\ pc' = "turn_added"
  /\ call' = Call("handle_turn", req.conversation_id, call.n)
  /\ UNCHANGED << held, other >>
  /\ UNCHANGED << started, req, memory, ctx, decision, ex, result, execution_history,
                  decision_history, decision_log, out >>

\* variant: the slots are written back from the memory read at the start
\* of the turn, so only the slots read then and those of this turn are kept
UpdateSlotStale ==
  /\ pc = "turn_added"
  /\ slot_queue # <<>>
  /\ LET own  == SlotUpdates(result, ctx.intent, ctx.entities)
         keep == DOMAIN memory.slots \cup {own[i].name : i \in DOMAIN own}
         old  == store[req.conversation_id].slots
     IN  store' = [store EXCEPT ![req.conversation_id].slots =
                     (Head(slot_queue).name :>
                        ConversationSlot(Head(slot_queue).name, Head(slot_queue).value,
                                         Head(slot_queue).confidence, clock))
                       @@ [k \in DOMAIN old \cap keep |-> old[k]],
                                ![req.conversation_id].updated_at = clock]
  /\ clock' = clock + 1
  /\ slot_queue' = Tail(slot_queue)
  /\ call' = [Call("handle_turn", req.conversation_id, call.n) EXCEPT !.arg = Head(slot_queue)]
  /\ UNCHANGED << held, other >>
  /\ UNCHANGED << started, pc, req, memory, ctx, decision, ex, result, execution_history,
                  decision_history, decision_log, out >>

\* Step 7: one update_slot call of _update_slots_from_execution
UpdateSlot ==
  /\ pc = "turn_added"
  /\ slot_queue # <<>>
  /\ store' = UpdateSlotIn(store, req.conversation_id, Head(slot_queue).name,
                           Head(slot_queue).value, Head(slot_queue).confidence, clock)
  /\ clock' = clock + 1
  /\ slot_queue' = Tail(slot_queue)
  /\ call' = [Call("handle_turn", req.conversation_id, call.n) EXCEPT !.arg = Head(slot_queue)]
  /\ UNCHANGED << held, other >>
  /\ UNCHANGED << started, pc, req, memory, ctx, decision, ex, result, execution_history,
                  decision_history, decision_log, out >>

\* planning_details["fallback_used"]
FallbackUsed(d, action_result) == Len(d.fallback_actions) > 0 /\ ~action_result.success

\* Steps 8 and 9: log the decision and return
Return ==
  /\ pc = "turn_added"
  /\ slot_queue = <<>>
  /\ decision_log' = Append(decision_log,
        [ user_message |-> req.message, intent |-> ctx.intent,
          planned_action |-> decision.primary_action.action_type,
          execution_success |-> result.success, response |-> result.response ])
  /\ out' = [ response |-> result.response, conversation_id |-> req.conversation_id,
              planning_details |->
                PlanningDetails(ctx.intent, ctx.entities, ctx.confidence,
                                decision.primary_action.action_type,
                                decision.primary_action.reasoning, decision.confidence,
                                result.success, FallbackUsed(decision, result)) ]
  /\ pc' = "idle"
  /\ UNCHANGED << call, held, other >>
  /\ UNCHANGED << store, clock, started, req, memory, ctx, decision, ex, result,
                  slot_queue, execution_history, decision_history >>

\* ----------------------------------------------------------- specifications
\* the pipeline: handleTurn calls one after the other
Init ==
  /\ store = [c \in ConvIds |-> NoRows]
  /\ clock = 1
  /\ started = 0
  /\ pc = "idle"
  /\ req = NoReq
  /\ memory = NoMemory
  /\ ctx = NoCtx
  /\ decision = NoDecision
  /\ ex = NoEx
  /\ result = NoResult
  /\ slot_queue = <<>>
  /\ execution_history = <<>>
  /\ decision_history = <<>>
  /\ decision_log = <<>>
  /\ out = NoOut
  /\ call = NoCall
  /\ held = NoMemory
  /\ other = NoTask

Next ==
  \/ \E user \in Users, m \in TurnMessages, cid \in ConvIds \cup {None} : Receive(user, m, cid)
  \/ Extract
  \/ Plan
  \/ ExecPrimary
  \/ ExecFallback
  \/ AddTurn
  \/ UpdateSlot
  \/ Return

Spec == Init /\ [][Next]_vars

\* the planner alone, applied to one PlanningContext
SampleValue(slot) ==
  CASE slot = "location" -> "ss2" [] slot = "query_type" -> "general"
    [] slot = "cuisine" -> "Japanese" [] slot = "category" -> "Electronics"
    [] slot = "expression" -> "Calculate 10 + 5"

SampleEntities == { [k \in S |-> SampleValue(k)] : S \in SUBSET SlotNames }

SampleConfidences == {0, 40, 49, 50, 60, 80, 90, 100}

InitPlan ==
  /\ store = [c \in ConvIds |-> NoRows]
  /\ clock = 1
  /\ started = 0
  /\ pc = "extracted"
  /\ req = NoReq
  /\ memory = NoMemory
  /\ ctx \in { PlanningContext(i, e, c, m, 0, None) :
                 i \in Intents, e \in SampleEntities, c \in SampleConfidences, m \in Messages }
  /\ decision = NoDecision
  /\ ex = NoEx
  /\ result = NoResult
  /\ slot_queue = <<>>
  /\ execution_history = <<>>
  /\ decision_history = <<>>
  /\ decision_log = <<>>
  /\ out = NoOut
  /\ call = NoCall
  /\ held = NoMemory
  /\ other = NoTask

NextPlan == Plan

SpecPlan == InitPlan /\ [][NextPlan]_vars

\* the planner followed by the executor: the Decision planned for one
\* PlanningContext is executed, whatever the tools do
NextPlanExec == Plan \/ ExecPrimary \/ ExecFallback

SpecPlanExec == InitPlan /\ [][NextPlanExec]_vars

\* the executor alone, applied to one Decision: actions that always succeed,
\* depend on their tool, always fail, have no handler, or raise
ExecActionPool ==
  { PlannerAction("provide_response", [NoParams EXCEPT !.response_type = "generic_help"],
                  50, "always succeeds", 1),
    PlannerAction("call_restaurant_api",
                  [NoParams EXCEPT !.input_data = [cuisine |-> "italian", location |-> "KL"]],
                  80, "depends on the tool", 1),
    PlannerAction("call_outlet_api", [NoParams EXCEPT !.input_data = [location |-> "mars"]],
                  90, "unknown outlet", 1),
    PlannerAction("invalid_action", NoParams, 50, "no handler", 1),
    PlannerAction("ask_clarification", [NoParams EXCEPT !.is_dict = FALSE],
                  80, "parameters is None", 1),
    PlannerAction("call_rag_system", [NoParams EXCEPT !.input_data = [rag_type |-> "product"]],
                  80, "query missing", 1),
    PlannerAction("call_rag_system",
                  [NoParams EXCEPT !.input_data = [rag_type |-> "", query |-> None]],
                  80, "query is None", 1),
    PlannerAction("call_rag_system", [NoParams EXCEPT !.input_data_is_dict = FALSE],
                  80, "input_data is None", 1),
    PlannerAction("call_rag_system",
                  [NoParams EXCEPT !.input_data = [rag_type |-> "outlet", query |-> "ss2"]],
                  80, "query present", 1) }

ExecDecisions ==
  { PlannerDecision(p, f, "", p.confidence) :
      p \in ExecActionPool,
      f \in UNION { [1..n -> ExecActionPool] : n \in 0..MaxFallbacks } }

InitExec ==
  /\ store = [c \in ConvIds |-> NoRows]
  /\ clock = 1
  /\ started = 0
  /\ pc = "planned"
  /\ req = NoReq
  /\ memory = NoMemory
  /\ ctx = NoCtx
  /\ decision \in ExecDecisions
  /\ ex = NoEx
  /\ result = NoResult
  /\ slot_queue = <<>>
  /\ execution_history = <<>>
  /\ decision_history = <<>>
  /\ decision_log = <<>>
  /\ out = NoOut
  /\ call = NoCall
  /\ held = NoMemory
  /\ other = NoTask

NextExec == ExecPrimary \/ ExecFallback

SpecExec == InitExec /\ [][NextExec]_vars

\* the executor after earlier execute_decision calls: the log holds the
\* entries those calls left, the k-th of them told apart by its confidence
EarlierEntry(k) ==
  [ action_type |-> "provide_response", status |-> "success", confidence |-> k,
    reasoning |-> "earlier", success |-> TRUE ]

EarlierHistory(n) == [k \in 1..n |-> EarlierEntry(k)]

InitLog ==
  /\ store = [c \in ConvIds |-> NoRows]
  /\ clock = 1
  /\ started = 0
  /\ pc = "planned"
  /\ req = NoReq
  /\ memory = NoMemory
  /\ ctx = NoCtx
  /\ decision \in ExecDecisions
  /\ ex = NoEx
  /\ result = NoResult
  /\ slot_queue = <<>>
  /\ execution_history \in {EarlierHistory(n) : n \in (HistoryCap - 2)..HistoryCap}
  /\ decision_history = <<>>
  /\ decision_log = <<>>
  /\ out = NoOut
  /\ call = NoCall
  /\ held = NoMemory
  /\ other = NoTask

SpecLog == InitLog /\ [][NextExec]_vars

\* the conversation store: handleTurn calls interleaved with the MemoryManager
\* calls other callers make. The methods of MemoryManager never suspend (their
\* sqlite3 calls are synchronous), so each is one step, and another caller
\* runs only between handleTurn calls or while one awaits a tool
Suspended == pc \in {"idle", "planned", "fallback"}

MemMessages == {"Tell me about SS2 outlet", "Calculate 10 + 5"}

MemSlots == {"location", "last_outlet_accessed"}

MemValues == {"ss2", "mid_valley"}

\* handleTurn called while other callers use the store
MemHandleTurn(m, cid) ==
  /\ started + call.n < MaxCalls
  /\ Receive("u1", m, cid)

\* MemoryManager.create_conversation called by another caller
MemCreate(user, cid) ==
  /\ Suspended
  /\ started + call.n < MaxCalls
  /\ store' = SaveConversation(store, NewConversation(user, cid, clock))
  /\ clock' = clock + 1
  /\ call' = Call("create", cid, call.n + 1)
  /\ UNCHANGED << started, pc, req, memory, ctx, decision, ex, result, slot_queue,
                  execution_history, decision_history, decision_log, out, held,
                  other >>

\* MemoryManager.get_conversation called by another caller, who keeps the result
MemGet(cid) ==
  /\ Suspended
  /\ started + call.n < MaxCalls
  /\ held' = GetConversation(store, cid)
  /\ call' = Call("get", cid, call.n + 1)
  /\ UNCHANGED << store, clock, started, pc, req, memory, ctx, decision, ex, result,
                  slot_queue, execution_history, decision_history, decision_log, out,
                  other >>

\* MemoryManager.save_conversation of the memory a caller holds
MemSave ==
  /\ Suspended
  /\ started + call.n < MaxCalls
  /\ held.conversation_id # None
  /\ store' = SaveConversation(store, held)
  /\ call' = Call("save", held.conversation_id, call.n + 1)
  /\ UNCHANGED << clock, started, pc, req, memory, ctx, decision, ex, result, slot_queue,
                  execution_history, decision_history, decision_log, out, held,
                  other >>

\* MemoryManager.add_turn with a turn the caller has just built
MemAddTurn(cid, m, intent) ==
  /\ Suspended
  /\ started + call.n < MaxCalls
  /\ LET turn == ConversationTurn(Uuid4(clock), m, Response("direct", ""), intent, EmptyMap,
                                  clock, 100)
     IN  store' = AddTurnTo(store, cid, turn, clock + 1)
  /\ clock' = clock + 2
  /\ call' = Call("add_turn", cid, call.n + 1)
  /\ UNCHANGED << started, pc, req, memory, ctx, decision, ex, result, slot_queue,
                  execution_history, decision_history, decision_log, out, held,
                  other >>

\* MemoryManager.update_slot
MemUpdateSlot(cid, name, value, confidence) ==
  /\ Suspended
  /\ started + call.n < MaxCalls
  /\ store' = UpdateSlotIn(store, cid, name, value, confidence, clock)
  /\ clock' = clock + 1
  /\ call' = [Call("update_slot", cid, call.n + 1) EXCEPT
                !.arg = SlotUpdate(name, value, confidence)]
  /\ UNCHANGED << started, pc, req, memory, ctx, decision, ex, result, slot_queue,
                  execution_history, decision_history, decision_log, out, held,
                  other >>

\* MemoryManager.delete_conversation (reset_conversation)
MemDelete(cid) ==
  /\ Suspended
  /\ started + call.n < MaxCalls
  /\ store' = DeleteConversation(store, cid)
  /\ call' = Call("delete", cid, call.n + 1)
  /\ UNCHANGED << clock, started, pc, req, memory, ctx, decision, ex, result, slot_queue,
                  execution_history, decision_history, decision_log, out, held,
                  other >>

NextMem ==
  \/ \E m \in MemMessages, cid \in ConvIds \cup {None} : MemHandleTurn(m, cid)
  \/ Extract
  \/ Plan
  \/ ExecPrimary
  \/ ExecFallback
  \/ AddTurn
  \/ UpdateSlot
  \/ Return
  \/ \E cid \in ConvIds : MemCreate("u2", cid)
  \/ \E cid \in ConvIds : MemGet(cid)
  \/ MemSave
  \/ \E cid \in ConvIds : MemAddTurn(cid, "Something something", "general_query")
  \/ \E cid \in ConvIds, name \in MemSlots, value \in MemValues :
       MemUpdateSlot(cid, name, value, 100)
  \/ \E cid \in ConvIds : MemDelete(cid)

SpecMem == Init /\ [][NextMem]_vars

\* two handleTurn calls on one event loop: the call that runs is suspended
\* where it awaits a tool (or has returned) and the other call runs on, or a
\* new call starts, until it awaits or returns in its turn
Switch ==
  /\ \/ pc \in {"planned", "fallback"}
     \/ pc = "idle" /\ other.pc # "idle"
  /\ other' = Task(pc, req, memory, ctx, decision, ex, result, slot_queue, out)
  /\ pc' = other.pc
  /\ req' = other.req
  /\ memory' = other.memory
  /\ ctx' = other.ctx
  /\ decision' = other.decision
  /\ ex' = other.ex
  /\ result' = other.result
  /\ slot_queue' = other.slot_queue
  /\ out' = other.out
  /\ UNCHANGED << store, clock, started, execution_history, decision_history,
                  decision_log, call, held >>

TwoMessages == {"Tell me about SS2 outlet", "Japanese food in Petaling Jaya"}

NextTwo ==
  \/ \E m \in TwoMessages, cid \in ConvIds \cup {None} : Receive("u1", m, cid)
  \/ Extract
  \/ Plan
  \/ ExecPrimary
  \/ ExecFallback
  \/ AddTurn
  \/ UpdateSlot
  \/ Return
  \/ Switch

SpecTwo == Init /\ [][NextTwo]_vars

\* ------------------------------------------------------------------- claims
Outcomes(a) == {a[k].outcome : k \in DOMAIN a}

\* index in the attempts of the first action that succeeded (0 when none did)
FirstSuccess(a) ==
  IF "success" \notin Outcomes(a) THEN 0
  ELSE CHOOSE k \in DOMAIN a :
         a[k].outcome = "success" /\ \A j \in DOMAIN a : a[j].outcome = "success" => k <= j

\* C1: execute_decision invokes the actions in the order primary, fallback[0],
\* fallback[1], ...; the k-th invocation is the k-th action of the chain, an
\* action is invoked only after every earlier one failed or raised, nothing
\* is invoked after a success, and the call ends only after a success or
\* after the whole chain was tried.
C1_FallbackOrder ==
  LET a == ex.attempts IN
  /\ Len(a) <= Len(Chain(decision))
  /\ \A k \in DOMAIN a : a[k].idx = k - 1
  /\ \A k \in DOMAIN a : k < Len(a) => a[k].outcome \in {"failed", "raised"}
  /\ pc = "fallback" => /\ "success" \notin Outcomes(a)
                        /\ ex.next = Len(a)
                        /\ Len(a) < Len(Chain(decision))
  /\ pc = "executed" => /\ a # <<>>
                        /\ \/ a[Len(a)].outcome = "success"
                           \/ Len(a) = Len(Chain(decision))

C1_Witness ==
  /\ pc = "executed"
  /\ Len(ex.attempts) = 3
  /\ ex.attempts[1].outcome = "failed"
  /\ ex.attempts[2].outcome = "raised"
  /\ ex.attempts[3].outcome = "success"

\* C2: the result execute_decision returns has success=true iff some action
\* of the chain succeeded when invoked, and then it is the result of the
\* first succeeding action (its text carrying the fallback note when that
\* action is a fallback).
C2_SuccessIffSomeActionSucceeded ==
  pc = "executed" =>
    LET a == ex.attempts
        k == FirstSuccess(a)
    IN  /\ result.success <=> "success" \in Outcomes(a)
        /\ result.success =>
             /\ result.data = a[k].result.data
             /\ result.error = a[k].result.error
             /\ result.response.text = a[k].result.response.text
             /\ result.response.about = a[k].result.response.about

C2_Witness ==
  /\ pc = "executed"
  /\ result.success
  /\ Len(ex.attempts) = 2
  /\ ex.attempts[1].outcome = "raised"
  /\ result.response.text = "restaurants_found"

\* C3: execute_decision never lets an exception reach its caller, and when the
\* primary and all fallbacks failed or raised it returns the fixed apology
\* with success=false and error 'All planned actions failed'.
C3_NeverRaises ==
  /\ pc # "raised"
  /\ (pc = "executed" /\ "success" \notin Outcomes(ex.attempts)) =>
       /\ Len(ex.attempts) = Len(Chain(decision))
       /\ result.success = FALSE
       /\ result.response.text = "apology"
       /\ result.error = "All planned actions failed"

C3_Witness ==
  /\ pc = "executed"
  /\ Len(ex.attempts) = 3
  /\ Outcomes(ex.attempts) = {"failed", "raised"}
  /\ result.error = "All planned actions failed"

\* C4 as stated: whenever the list of missing critical slots is non-empty,
\* the Decision's primary action is RequestMissingInfo and its missing_slots
\* parameter is that list.
C4_AsStated ==
  (pc = "planned" /\ CriticalMissing(ctx) # <<>>) =>
     /\ decision.primary_action.action_type = "request_missing_info"
     /\ decision.primary_action.parameters.missing_slots = CriticalMissing(ctx)

\* C4 amended: whenever confidence >= 0.5 and the list of missing critical
\* slots is non-empty, the Decision's primary action is RequestMissingInfo and
\* its missing_slots parameter is exactly that list.
C4_CriticalMissingRequested ==
  (pc = "planned" /\ ctx.confidence >= LowConfidence /\ CriticalMissing(ctx) # <<>>) =>
     /\ decision.primary_action.action_type = "request_missing_info"
     /\ decision.primary_action.parameters.missing_slots = CriticalMissing(ctx)
     /\ decision.fallback_actions = <<>>

C4_Witness ==
  /\ pc = "planned"
  /\ ctx.confidence >= LowConfidence
  /\ ctx.intent = "restaurant_search"
  /\ MissingSlots(ctx) = <<"cuisine", "location">>
  /\ decision.primary_action.parameters.missing_slots = <<"cuisine">>

\* C5: whenever confidence < 0.5, whatever the intent, entities and missing
\* slots, the primary action is AskClarification with confidence 0.8 and the
\* only fallback is a ProvideResponse of type generic_help with confidence 0.5.
C5_LowConfidenceClarifies ==
  (pc = "planned" /\ ctx.confidence < LowConfidence) =>
     /\ decision.primary_action.action_type = "ask_clarification"
     /\ decision.primary_action.confidence = 80
     /\ Len(decision.fallback_actions) = 1
     /\ decision.fallback_actions[1].action_type = "provide_response"
     /\ decision.fallback_actions[1].parameters.response_type = "generic_help"
     /\ decision.fallback_actions[1].confidence = 50

C5_Witness ==
  /\ pc = "planned"
  /\ ctx.confidence = 49
  /\ ctx.intent = "outlet_inquiry"
  /\ CriticalMissing(ctx) = <<"location">>
  /\ UrgencyHigh(ctx.user_message)
  /\ decision.primary_action.action_type = "ask_clarification"

\* the tool-call action the claim maps an intent to, and the slots its schema requires
ClaimedTool(intent) ==
  CASE intent = "calculation"       -> "call_calculator"
    [] intent = "outlet_inquiry"    -> "call_outlet_api"
    [] intent = "restaurant_search" -> "call_restaurant_api"
    [] intent = "product_search"    -> "call_product_api"
    [] OTHER -> None

ClaimedRequired(intent) ==
  CASE intent = "calculation"       -> {"expression"}
    [] intent = "outlet_inquiry"    -> {"location"}
    [] intent = "restaurant_search" -> {"cuisine"}
    [] intent = "product_search"    -> {"category"}
    [] OTHER -> {}

\* C6: whenever confidence >= 0.5, the intent is Calculation, OutletInquiry,
\* RestaurantSearch or ProductSearch and its schema-required slot (expression;
\* location; cuisine; category) is among the entities, the primary action is
\* the tool call mapped from the intent with the entities as input, and the
\* only fallback is a ProvideResponse of type partial_information.
C6_ToolCallWhenSlotsPresent ==
  ( /\ pc = "planned"
    /\ ctx.confidence >= LowConfidence
    /\ ClaimedTool(ctx.intent) # None
    /\ ClaimedRequired(ctx.intent) \subseteq DOMAIN ctx.entities ) =>
     /\ decision.primary_action.action_type = ClaimedTool(ctx.intent)
     /\ decision.primary_action.parameters.input_data = ctx.entities
     /\ Len(decision.fallback_actions) = 1
     /\ decision.fallback_actions[1].action_type = "provide_response"
     /\ decision.fallback_actions[1].parameters.response_type = "partial_information"

\* the turn in flight follows a stored OutletInquiry turn that named a location
AfterOutletTurnWithLocation ==
  /\ memory.turns # <<>>
  /\ memory.turns[Len(memory.turns)].intent = "outlet_inquiry"
  /\ Has(memory.turns[Len(memory.turns)].entities, "location")

\* C7: when the previous turn of the conversation was an OutletInquiry that
\* supplied a location, and the utterance has an hours/contact/address keyword
\* but names no location, the turn plans CallOutletLookup as primary action
\* and its response is about the outlet of the stored location.
C7_FollowUpUsesStoredLocation ==
  ( /\ pc = "executed"
    /\ AfterOutletTurnWithLocation
    /\ AnyIn(Kws(req.message), HoursKeywords \o ContactKeywords \o AddressKeywords)
    /\ ExtractLocations(req.message) = {} ) =>
     /\ decision.primary_action.action_type = "call_outlet_api"
     /\ result.success
     /\ result.response.about =
          MapLocationToOutlet(memory.turns[Len(memory.turns)].entities.location)

\* the primary intents other than OutletInquiry that have a keyword in the text
KeywordIntents(kws) ==
  {i \in {"calculation", "restaurant_search", "product_search"} :
     \/ i = "calculation" /\ AnyIn(kws, CalculationKeywords)
     \/ i = "restaurant_search" /\ AnyIn(kws, RestaurantKeywords)
     \/ i = "product_search" /\ AnyIn(kws, ProductKeywords)}

\* C8: when the latest turn of the conversation has intent OutletInquiry, an
\* utterance with a calculation, restaurant or product keyword and no outlet
\* keyword is classified as the intent of such a keyword, never as
\* OutletInquiry and never as GeneralQuery.
C8_InterruptClassifiedByKeyword ==
  ( /\ pc = "extracted"
    /\ LatestIntent(memory) = "outlet_inquiry"
    /\ ~AnyIn(Kws(req.message), OutletKeywords)
    /\ KeywordIntents(Kws(req.message)) # {} ) =>
     ctx.intent \in KeywordIntents(Kws(req.message))

\* the turn planned CallRestaurantLookup and the restaurant tool raised or
\* returned a non-success status
RestaurantToolFailed ==
  /\ pc \in {"executed", "turn_added", "idle"}
  /\ decision.primary_action.action_type = "call_restaurant_api"
  /\ ex.attempts # <<>>
  /\ ex.attempts[1].outcome # "success"

\* C9 as stated: when the turn plans CallRestaurantLookup and the restaurant
\* tool raises or returns a non-success status, the turn ends with an
\* ActionResult whose success is false and whose text is an apology.
C9_AsStated ==
  RestaurantToolFailed =>
     /\ result.success = FALSE
     /\ result.response.text \in {"apology", "restaurants_sorry", "restaurants_trouble"}

\* C9 amended: when the turn plans CallRestaurantLookup and the restaurant
\* tool raises or returns a non-success status, the restaurant handler returns
\* success=false with an apology text, the ProvideResponse fallback then
\* produces the turn's result, whose success is true and whose text is the
\* partial-information response with the fallback note (execution_success is
\* true in the decision trace), and no exception escapes handleTurn.
C9_RestaurantFailureFallsBack ==
  /\ pc # "raised"
  /\ RestaurantToolFailed =>
       /\ ex.attempts[1].outcome = "failed"
       /\ ex.attempts[1].result.response.text \in {"restaurants_sorry", "restaurants_trouble"}
       /\ result.success
       /\ result.response.text = "partial_information"
       /\ result.response.notes = 1
       /\ (pc = "idle" => /\ out.planning_details.execution_success
                          /\ out.response = result.response)

C9_Witness ==
  /\ pc = "idle"
  /\ out.planning_details.planned_action = "call_restaurant_api"
  /\ RestaurantToolFailed
  /\ ex.attempts[1].result.response.text = "restaurants_sorry"
  /\ out.response.text = "partial_information"

\* C10: the decision trace a turn returns has fallback_used = true exactly
\* when the returned response was produced by a fallback action, and false
\* when the primary action produced it.
C10_FallbackUsedMeansFallbackResponse ==
  (pc = "idle" /\ out.conversation_id # None) =>
     ( out.planning_details.fallback_used <=>
         /\ ex.attempts[Len(ex.attempts)].idx > 0
         /\ ex.attempts[Len(ex.attempts)].outcome = "success" )

\* the turn sequence get(cid) returns
Turns(st, cid) == GetConversation(st, cid).turns

IsPrefix(a, b) == Len(a) <= Len(b) /\ SubSeq(b, 1, Len(a)) = a

NonDecreasing(turns) ==
  \A i, j \in DOMAIN turns : i < j => turns[i].timestamp <= turns[j].timestamp

\* the step is a delete made by a caller of the store
DeleteStep == call'.n # call.n /\ call'.op = "delete"

\* C11: turns are append-only. Across every step of handleTurn, add_turn,
\* update_slot and save_conversation (every step but a delete), the turn
\* sequence get returned before the step is a prefix of the one it returns
\* after it (every earlier turn still there with identical fields, new turns
\* only after them), and the sequence is ordered by non-decreasing timestamp.
C11_TurnsAppendOnly ==
  [][ ~DeleteStep =>
        \A c \in ConvIds :
          /\ IsPrefix(Turns(store, c), Turns(store', c))
          /\ NonDecreasing(Turns(store', c)) ]_vars

\* a conversation holding a turn of handleTurn followed by a turn another
\* caller added, after a slot update
C11_Witness ==
  \E c \in ConvIds :
    /\ Len(Turns(store, c)) = 2
    /\ Turns(store, c)[1].bot_response.text # "direct"
    /\ Turns(store, c)[2].bot_response.text = "direct"
    /\ call.op = "add_turn"
    /\ DOMAIN store[c].slots # {}

\* the moves of the pipeline: each stage is left for a later one; the
\* fallback loop advances to the next fallback, the slot updates of the
\* terminal stage consume their queue
PipelineMoves ==
  { <<"idle", "received">>, <<"received", "extracted">>, <<"extracted", "planned">>,
    <<"planned", "fallback">>, <<"planned", "executed">>, <<"fallback", "fallback">>,
    <<"fallback", "executed">>, <<"executed", "turn_added">>,
    <<"turn_added", "turn_added">>, <<"turn_added", "idle">> }

\* C12: a handleTurn call passes once through Received, Extracted, Planned,
\* Executing(primary), Executing(fallback i) for increasing i, Terminal,
\* never back to an earlier stage, and when it returns the conversation holds
\* exactly one turn more than when the call read it: the new, last turn with
\* this utterance, the returned response, the extracted intent and confidence.
C12_LinearPipelineOneTurn ==
  [][ /\ <<pc, pc'>> \in PipelineMoves
      /\ (pc = "fallback" /\ pc' = "fallback") => ex'.next = ex.next + 1
      /\ (pc = "turn_added" /\ pc' = "turn_added") => Len(slot_queue') < Len(slot_queue)
      /\ (pc = "turn_added" /\ pc' = "idle") =>
           LET t == Turns(store', req.conversation_id) IN
             /\ Len(t) = Len(memory.turns) + 1
             /\ SubSeq(t, 1, Len(memory.turns)) = memory.turns
             /\ t[Len(t)].user_message = req.message
             /\ t[Len(t)].bot_response = out'.response
             /\ t[Len(t)].intent = ctx.intent
             /\ t[Len(t)].confidence = ctx.confidence ]_vars

\* the second turn of a conversation has returned after its primary action
\* failed and a fallback produced the response
C12_Witness ==
  /\ pc = "idle"
  /\ started = 2
  /\ Len(Turns(store, req.conversation_id)) = 2
  /\ Len(ex.attempts) = 2
  /\ out.response.notes = 1

\* C13: conversations are isolated. Whatever a step does for one
\* conversation (a step of handleTurn, create, add_turn, update_slot, save or
\* delete, in any interleaving), what get returns for every other
\* conversation (turns, slots, owner, state) is the same before and after.
C13_ConversationsIsolated ==
  [][ \A c \in ConvIds :
        c # call'.conversation_id => GetConversation(store', c) = GetConversation(store, c) ]_vars

\* while a turn for c2 waits for its tool, another caller has added a turn to
\* c1, and both conversations hold their own owner
C13_Witness ==
  /\ pc = "planned"
  /\ req.conversation_id = "c2"
  /\ call = Call("add_turn", "c1", 1)
  /\ Len(Turns(store, "c1")) = 2
  /\ Turns(store, "c2") = <<>>
  /\ store["c2"].exists

\* the step is an update_slot call: one made by another caller, or one of
\* handleTurn's slot updates
UpdateSlotStep ==
  \/ call'.n # call.n /\ call'.op = "update_slot"
  \/ pc = "turn_added" /\ pc' = "turn_added"

\* C14: update_slot(name, value, confidence) on a stored conversation sets
\* slot name to exactly the new value, confidence and last-updated time and
\* leaves every other slot and the turn sequence as they were; the number of
\* slot keys is unchanged when the name existed and grows by one when it is new.
C14_UpdateSlotFrame ==
  [][ (UpdateSlotStep /\ store[call'.conversation_id].exists) =>
        LET c   == call'.conversation_id
            a   == call'.arg
            old == GetConversation(store, c).slots
            new == GetConversation(store', c).slots
        IN  /\ DOMAIN new = DOMAIN old \cup {a.name}
            /\ new[a.name] = ConversationSlot(a.name, a.value, a.confidence, clock)
            /\ \A k \in DOMAIN old \ {a.name} : new[k] = old[k]
            /\ Cardinality(DOMAIN new) =
                 IF a.name \in DOMAIN old THEN Cardinality(DOMAIN old)
                                          ELSE Cardinality(DOMAIN old) + 1
            /\ Turns(store', c) = Turns(store, c) ]_vars

\* handleTurn stored location "ss2" and query_type from the entities of its
\* turn; another caller then overwrote location
C14_Witness ==
  \E c \in ConvIds :
    /\ pc = "idle"
    /\ call.op = "update_slot"
    /\ call.conversation_id = c
    /\ call.arg.name = "location"
    /\ Len(Turns(store, c)) = 1
    /\ Has(Turns(store, c)[1].entities, "location")
    /\ Turns(store, c)[1].entities["location"] = "ss2"
    /\ DOMAIN store[c].slots = {"location", "query_type", "last_outlet_accessed"}
    /\ store[c].slots["location"].value = "mid_valley"
    /\ store[c].slots["location"].confidence = 100
    /\ store[c].slots["location"].last_updated > store[c].slots["query_type"].last_updated

\* the step is a get_conversation call made by a caller of the store
GetStep == call'.n # call.n /\ call'.op = "get"

\* C15: get on an id with no stored conversation (never created, or deleted)
\* returns the absence marker; a delete leaves no conversation row, no turn
\* row and no slot row of that id, so nothing of it can be retrieved, also
\* not by creating the id again.
C15_GetAbsentReturnsNone ==
  [][ /\ (GetStep /\ ~store[call'.conversation_id].exists) => held' = NoMemory
      /\ DeleteStep =>
           /\ GetConversation(store', call'.conversation_id) = NoMemory
           /\ store'[call'.conversation_id] = NoRows
      /\ \A c \in ConvIds : ~store'[c].exists => store'[c] = NoRows ]_vars

\* handleTurn stored a turn and slots for a conversation, the conversation
\* was then deleted and a get on its id returned the absence marker
C15_Witness ==
  /\ pc = "idle"
  /\ out.conversation_id \in ConvIds
  /\ call = Call("get", out.conversation_id, 2)
  /\ store[out.conversation_id] = NoRows
  /\ held = NoMemory

\* C16: an action whose type has no handler is not executed and does not
\* raise. Its step in execute_decision is a returned result with
\* success=false, the text "Unknown action type", no data and an error that
\* names the type; the step counts as failed: the executor goes on to the
\* next fallback, or returns the error result when none is left.
C16_UnknownActionFailsStep ==
  \A k \in DOMAIN ex.attempts :
    LET action == Chain(decision)[k] IN
    action.action_type \notin ActionTypes =>
      /\ ex.attempts[k].outcome = "failed"
      /\ ex.attempts[k].result =
           ActionResult(FALSE, Response("Unknown action type", ""), NoData,
                        "No handler for action type: " \o action.action_type)
      /\ ex.attempts[k].result.error # None
      /\ pc # "raised"
      /\ (pc = "executed" /\ k = Len(ex.attempts)) =>
           /\ k = Len(Chain(decision))
           /\ result = ErrorResult

\* the primary action had no handler, the first fallback was tried and
\* produced the result
C16_Witness ==
  /\ pc = "executed"
  /\ Len(ex.attempts) = 2
  /\ decision.primary_action.action_type = "invalid_action"
  /\ ex.attempts[1].result.error = "No handler for action type: invalid_action"
  /\ ex.attempts[2].outcome = "success"
  /\ result.success

\* the input of the action carries no query, or an empty one
NoQuery(action) ==
  \/ ~action.parameters.is_dict
  \/ ~action.parameters.input_data_is_dict
  \/ Falsy(Get(action.parameters.input_data, "query", ""))

\* C17: a CallRetrievalSystem action without a query is rejected before any
\* external call, whatever the shape of its parameters: its step is a
\* returned result with success=false and error "Missing query", and the
\* tool was not invoked.
C17_MissingQueryRejected ==
  \A k \in DOMAIN ex.attempts :
    LET action == Chain(decision)[k] IN
    (action.action_type = "call_rag_system" /\ NoQuery(action)) =>
      /\ ex.attempts[k].outcome = "failed"
      /\ ex.attempts[k].result.error = "Missing query"
      /\ ~ex.attempts[k].invoked

ToolCalls == {"call_calculator", "call_outlet_api", "call_restaurant_api", "call_product_api"}

\* rules 1 and 2 do not match and the context is complete with a matching tool
ToolRuleMatches(c) ==
  /\ c.confidence >= LowConfidence
  /\ CriticalMissing(c) = <<>>
  /\ CompletenessAtLeast(c, HighCompleteness)
  /\ \E i \in DOMAIN ToolOrder : ToolRelevance(c, ToolOrder[i]) > ToolRelevanceMin

\* C18: rule 3 comes before rule 4. For a context with confidence >= 0.5, no
\* critical slot missing, completeness >= 0.8 and best-tool relevance > 0.8
\* the decision is the call of the best tool, whatever the urgency of the
\* utterance; it is never the 'urgent' ProvideResponse.
C18_ToolBeforeUrgency ==
  (pc = "planned" /\ ToolRuleMatches(ctx)) =>
    /\ decision.primary_action.action_type \in ToolCalls
    /\ decision.primary_action.action_type = ActionMap(BestTool(ctx))
    /\ decision.primary_action.parameters.tool_name = BestTool(ctx)
    /\ decision.primary_action.parameters.response_type # "urgent"

\* a complete outlet inquiry in a highly urgent utterance is planned as the
\* outlet lookup
C18_Witness ==
  /\ pc = "planned"
  /\ ToolRuleMatches(ctx)
  /\ UrgencyHigh(ctx.user_message)
  /\ ctx.intent = "outlet_inquiry"
  /\ decision.primary_action.action_type = "call_outlet_api"

\* the predicates of the six rules, in the order of the table
RuleHolds(k, c) ==
  CASE k = 1 -> c.confidence < LowConfidence
    [] k = 2 -> \E i \in DOMAIN RequiredSlots(c.intent) :
                  /\ ~Has(c.entities, RequiredSlots(c.intent)[i])
                  /\ IsCriticalSlot(c.intent, RequiredSlots(c.intent)[i])
    [] k = 3 -> /\ CompletenessAtLeast(c, HighCompleteness)
                /\ \E i \in DOMAIN ToolOrder : ToolRelevance(c, ToolOrder[i]) > ToolRelevanceMin
    [] k = 4 -> UrgencyHigh(c.user_message)
    [] k = 5 -> CompletenessBelow(c, LowCompleteness)
    [] k = 6 -> TRUE

\* the decision each rule builds
RuleDecision(k, c) ==
  CASE k = 1 -> CreateClarificationDecision(c)
    [] k = 2 -> CreateMissingInfoDecision(c)
    [] k = 3 -> CreateToolExecutionDecision(c)
    [] k = 4 -> CreateUrgentResponseDecision(c)
    [] k = 5 -> CreateInformationRequestDecision(c)
    [] k = 6 -> CreateDefaultResponseDecision(c)

FirstRule(c) == CHOOSE k \in 1..6 : RuleHolds(k, c) /\ \A j \in 1..(k - 1) : ~RuleHolds(j, c)

\* C19: plan_next_action is the ordered rule table low-confidence,
\* critical-slot-missing, tool-match, high-urgency, low-completeness, default
\* with the first match winning: the decision of every PlanningContext is the
\* one built by the first rule whose predicate holds. A decision is the
\* 'urgent' ProvideResponse exactly when rule 4 is the first match, and it then
\* has confidence 0.7 and no fallback; a context matching none of rules 1-5 gets
\* the 'default' ProvideResponse with confidence 0.6 and no fallback.
C19_OrderedRuleTable ==
  pc = "planned" =>
    /\ decision = RuleDecision(FirstRule(ctx), ctx)
    /\ (decision.primary_action.parameters.response_type = "urgent") <=> (FirstRule(ctx) = 4)
    /\ FirstRule(ctx) = 4 =>
         /\ decision.primary_action.action_type = "provide_response"
         /\ decision.primary_action.confidence = 70
         /\ decision.confidence = 70
         /\ decision.fallback_actions = <<>>
    /\ FirstRule(ctx) = 6 =>
         /\ decision.primary_action.action_type = "provide_response"
         /\ decision.primary_action.parameters.response_type = "default"
         /\ decision.primary_action.confidence = 60
         /\ decision.confidence = 60
         /\ decision.fallback_actions = <<>>

\* an urgent utterance whose context matches none of rules 1-3 is planned as
\* the 'urgent' response
C19_Witness ==
  /\ pc = "planned"
  /\ FirstRule(ctx) = 4
  /\ ctx.confidence >= LowConfidence
  /\ decision.primary_action.parameters.response_type = "urgent"
  /\ decision.fallback_actions = <<>>

\* C20: for every intent and every entity set the planner's list of all
\* missing required slots equals its list of critical missing slots, and the
\* missing-slot list the pipeline placed in the PlanningContext equals the
\* list the planner computes for the same intent and entities.
C20_MissingListsAgree ==
  pc = "planned" =>
    /\ MissingSlots(ctx) = CriticalMissing(ctx)
    /\ ctx.missing_slots = MissingSlots(ctx)

\* the status tag of the log entry an attempt is expected to leave
AttemptTag(a) ==
  IF a.idx = 0 THEN (IF a.outcome = "success" THEN "success" ELSE "error")
  ELSE (IF a.outcome = "success" THEN "fallback_success" ELSE "fallback_error")

\* C21: every action attempt of execute_decision (the primary and each
\* fallback that is invoked; succeeding, returning success=false or raising)
\* appends exactly one entry to the execution history, tagged success,
\* fallback_success, error or fallback_error: starting from an empty log, the
\* log is as long as the list of attempts and entry k belongs to attempt k.
C21_EveryAttemptLogged ==
  /\ Len(execution_history) = Len(ex.attempts)
  /\ \A k \in DOMAIN ex.attempts :
       k \in DOMAIN execution_history =>
         execution_history[k].status = AttemptTag(ex.attempts[k])

\* no keyword of any intent category, no follow-up keyword and no location
\* occurs in the utterance
NoCategoryMatches(m) ==
  /\ ~AnyIn(Kws(m), OutletKeywords)
  /\ ~AnyIn(Kws(m), RestaurantKeywords)
  /\ ~AnyIn(Kws(m), ProductKeywords)
  /\ ~AnyIn(Kws(m), CalculationKeywords)
  /\ ~AnyIn(Kws(m), FollowUpKeywords)
  /\ ExtractLocations(m) = {}

\* C22: whenever the extractor returns GeneralQuery because no intent category
\* matched the utterance, the confidence it returns is below 0.5, whatever
\* the previous turn of the conversation was, and the turn is planned as
\* AskClarification.
C22_UnmatchedIsLowConfidence ==
  (pc \in {"extracted", "planned"} /\ ctx.intent = "general_query"
     /\ NoCategoryMatches(ctx.user_message)) =>
    /\ ctx.confidence < LowConfidence
    /\ pc = "planned" => decision.primary_action.action_type = "ask_clarification"

\* C23: when execute_decision returns the result of a fallback action, the
\* result has success=true and its response is the fallback handler's text
\* with the fallback note appended exactly once; when it returns the primary
\* action's result, the response is the handler's text with no note.
C23_FallbackNoteOnce ==
  (pc = "executed" /\ "success" \in Outcomes(ex.attempts)) =>
    LET a == ex.attempts[Len(ex.attempts)] IN
    /\ a.outcome = "success"
    /\ result.success
    /\ result.response.text = a.result.response.text
    /\ result.response.about = a.result.response.about
    /\ a.result.response.notes = 0
    /\ result.response.notes = IF a.idx > 0 THEN 1 ELSE 0

\* the second fallback succeeded after the primary and the first fallback
\* did not: the returned text carries one note
C23_Witness ==
  /\ pc = "executed"
  /\ Len(ex.attempts) = 3
  /\ ex.attempts[3].outcome = "success"
  /\ result.success
  /\ result.response.notes = 1

\* C24: within one handleTurn on an existing conversation nothing is written
\* to the conversation store before the executor has returned: the initial
\* read, extraction, planning and every execution step leave the store as
\* it was; the first write appends the new turn (slots untouched), and the
\* slot updates follow it, each leaving the turn sequence as it is.
C24_WritesAfterExecution ==
  [][ /\ (pc = "idle" /\ pc' = "received" /\ store[req'.conversation_id].exists) =>
           /\ store' = store
           /\ memory' = GetConversation(store, req'.conversation_id)
      /\ pc \in {"received", "extracted", "planned", "fallback"} => store' = store
      /\ (pc = "executed" /\ pc' = "turn_added") =>
           LET c == req.conversation_id IN
           /\ Len(Turns(store', c)) = Len(Turns(store, c)) + 1
           /\ IsPrefix(Turns(store, c), Turns(store', c))
           /\ Turns(store', c)[Len(Turns(store', c))].user_message = req.message
           /\ store'[c].slots = store[c].slots
      /\ (pc = "turn_added" /\ pc' = "turn_added") =>
           /\ Turns(store', req.conversation_id) = Turns(store, req.conversation_id)
           /\ store'[req.conversation_id].slots # store[req.conversation_id].slots
      /\ (pc = "turn_added" /\ pc' = "idle") => store' = store ]_vars

\* the second turn of a conversation has been appended to the turn read at
\* the start, and its slot updates have been written after it
C24_Witness ==
  /\ pc = "turn_added"
  /\ slot_queue = <<>>
  /\ Len(memory.turns) = 1
  /\ Len(Turns(store, req.conversation_id)) = 2
  /\ \E k \in DOMAIN store[req.conversation_id].slots :
       store[req.conversation_id].slots[k].last_updated
         > Turns(store, req.conversation_id)[2].timestamp

LocalActions == {"ask_clarification", "request_missing_info", "provide_response"}

\* C25: every Decision plan_next_action produces is executed with
\* success=true whatever the external tools do. Its primary is a local action
\* (AskClarification, RequestMissingInfo, ProvideResponse), which succeeds at
\* once, or a tool call whose only fallback is a ProvideResponse, which
\* succeeds when the tool call does not; the apology of the exhausted
\* fallbacks is never returned.
C25_PlannedDecisionsSucceed ==
  /\ pc \in {"planned", "fallback", "executed"} =>
       \/ decision.primary_action.action_type \in LocalActions
       \/ /\ decision.primary_action.action_type \in ToolCalls
          /\ Len(decision.fallback_actions) = 1
          /\ decision.fallback_actions[1].action_type = "provide_response"
  /\ pc = "fallback" => decision.primary_action.action_type \in ToolCalls
  /\ pc = "executed" =>
       /\ result.success
       /\ result.response.text # "apology"
       /\ result.error # "All planned actions failed"
       /\ ex.attempts[Len(ex.attempts)].outcome = "success"
       /\ decision.primary_action.action_type \in LocalActions => Len(ex.attempts) = 1
  /\ pc # "raised"

\* the restaurant lookup planned for a complete context raised, and the
\* ProvideResponse fallback produced the result
C25_Witness ==
  /\ pc = "executed"
  /\ decision.primary_action.action_type = "call_restaurant_api"
  /\ Len(ex.attempts) = 2
  /\ ex.attempts[1].invoked
  /\ ex.attempts[1].outcome = "failed"
  /\ result.success
  /\ result.response.text = "partial_information"

\* the step is one of the writes handleTurn makes at the end of its turn:
\* add_turn, or one update_slot
WriteBackStep ==
  \/ pc = "executed" /\ pc' = "turn_added"
  \/ pc = "turn_added" /\ pc' = "turn_added"

\* C27: when the conversation of a handleTurn in flight has been deleted
\* between the turn's initial read and its write-back, the turn's add_turn
\* and update_slot calls change nothing: the conversation is not created
\* again, get returns the absence marker, no turn or slot row of the id
\* exists; handleTurn raises nothing and returns the executor's response.
C27_DeletedStaysDeleted ==
  [][ /\ (WriteBackStep /\ ~store[req.conversation_id].exists) =>
           /\ store' = store
           /\ GetConversation(store', req.conversation_id) = NoMemory
           /\ store'[req.conversation_id] = NoRows
      /\ pc' # "raised"
      /\ (pc = "turn_added" /\ pc' = "idle") =>
           /\ out'.response = result.response
           /\ out'.conversation_id = req.conversation_id ]_vars

\* a turn with entities has returned its response for a conversation that
\* was deleted while the turn waited for its tool; the last calls on the store
\* were the turn's own write-back
C27_Witness ==
  /\ pc = "idle"
  /\ started = 1
  /\ call.op = "handle_turn"
  /\ call.n = 1
  /\ call.arg.name = "query_type"
  /\ out.conversation_id = req.conversation_id
  /\ out.response = result.response
  /\ result.success
  /\ \A c \in ConvIds : ~store[c].exists

\* both handleTurn calls have returned, for the same conversation
BothReturned ==
  /\ pc = "idle"
  /\ other.pc = "idle"
  /\ out.conversation_id # None
  /\ out.conversation_id = other.out.conversation_id

\* the slot names a returned call wrote, and the value it wrote under name k
Written(t) == SlotUpdates(t.result, t.ctx.intent, t.ctx.entities)

WrittenNames(t) == {Written(t)[i].name : i \in DOMAIN Written(t)}

WrittenValues(t, k) == {Written(t)[i].value : i \in {j \in DOMAIN Written(t) : Written(t)[j].name = k}}

ThisTask == Task(pc, req, memory, ctx, decision, ex, result, slot_queue, out)

\* once both calls have returned, both turns are in the stored sequence and
\* every slot either call wrote is stored with a value one of its writers gave
BothStored ==
  BothReturned =>
    LET c == out.conversation_id
        T == Turns(store, c)
    IN  /\ \E i, j \in DOMAIN T :
             /\ i # j
             /\ T[i].user_message = req.message
             /\ T[i].bot_response = out.response
             /\ T[j].user_message = other.req.message
             /\ T[j].bot_response = other.out.response
        /\ \A k \in WrittenNames(ThisTask) \cup WrittenNames(other) :
             /\ k \in DOMAIN store[c].slots
             /\ store[c].slots[k].value
                  \in WrittenValues(ThisTask, k) \cup WrittenValues(other, k)

\* C26: when two handleTurn calls for one conversation overlap (both read the
\* memory before either writes back), no step loses a stored turn or a stored
\* slot, a slot changes only when it is written under its own name and then
\* holds what the last writer wrote, as do the row's updated_at and state; and
\* once both calls have returned both turns are in the stored sequence and
\* every slot either call wrote is stored with a value one of its writers gave it.
C26_OverlappingTurnsKept ==
  [][ /\ \A c \in ConvIds :
           /\ IsPrefix(Turns(store, c), Turns(store', c))
           /\ DOMAIN store[c].slots \subseteq DOMAIN store'[c].slots
           /\ \A k \in DOMAIN store[c].slots :
                store'[c].slots[k] # store[c].slots[k] =>
                  /\ pc = "turn_added" /\ pc' = "turn_added"
                  /\ c = req.conversation_id
                  /\ k = call'.arg.name
                  /\ store'[c].slots[k] =
                       ConversationSlot(k, call'.arg.value, call'.arg.confidence, clock)
                  /\ store'[c].updated_at = clock
                  /\ store'[c].state = "active"
      /\ BothStored' ]_vars

\* an outlet question and a restaurant search on one conversation overlapped
\* and both returned: two turns, the slots each wrote alone and the location
\* both wrote
C26_Witness ==
  /\ BothReturned
  /\ req.message # other.req.message
  /\ Len(memory.turns) = 0
  /\ Len(other.memory.turns) = 0
  /\ Len(Turns(store, out.conversation_id)) = 2
  /\ {"cuisine", "query_type", "location"} \subseteq DOMAIN store[out.conversation_id].slots

\* a restaurant search that names its cuisine and no location
CuisineOnly(c) ==
  /\ c.intent = "restaurant_search"
  /\ Has(c.entities, "cuisine")
  /\ ~Has(c.entities, "location")

\* C28: planner rule 5 is unreachable. For every intent and entity set, when
\* no critical slot is missing the completeness is at least 0.5, so no
\* Decision is the RequestMissingInfo tagged optional_enhancement; and a
\* restaurant search with a cuisine and no location (completeness 0.5) gets
\* the urgent or the default ProvideResponse, not a tool call and not a
\* request for information.
C28_RuleFiveUnreachable ==
  pc = "planned" =>
    /\ CriticalMissing(ctx) = <<>> =>
         /\ TotalSlots(ctx) = 0 \/ 2 * FilledSlots(ctx) >= TotalSlots(ctx)
         /\ ~CompletenessBelow(ctx, LowCompleteness)
    /\ decision.primary_action.parameters.suggestion_type # "optional_enhancement"
    /\ decision.primary_action.action_type = "request_missing_info" =>
         decision.primary_action.parameters.missing_slots = CriticalMissing(ctx)
           /\ CriticalMissing(ctx) # <<>>
    /\ (CuisineOnly(ctx) /\ ctx.confidence >= LowConfidence) =>
         /\ FilledSlots(ctx) = 1 /\ TotalSlots(ctx) = 2
         /\ decision.primary_action.action_type = "provide_response"
         /\ decision.primary_action.parameters.response_type =
              IF UrgencyHigh(ctx.user_message) THEN "urgent" ELSE "default"
         /\ decision.fallback_actions = <<>>

\* a restaurant search with a cuisine and no location, in an utterance that
\* is not urgent, is planned as the default response
C28_Witness ==
  /\ pc = "planned"
  /\ CuisineOnly(ctx)
  /\ ctx.confidence >= LowConfidence
  /\ ~UrgencyHigh(ctx.user_message)
  /\ decision.primary_action.parameters.response_type = "default"

\* C29: the owning user id of a conversation is fixed at its creation and no
\* later step changes it. A handleTurn that passes the id of a stored
\* conversation is accepted whatever user id it passes: it reads that
\* conversation, appends its turn, updates the slots, and the stored user id
\* is still the creator's.
C29_OwnerFixed ==
  [][ /\ \A c \in ConvIds :
           store[c].exists => store'[c].exists /\ store'[c].user_id = store[c].user_id
      /\ (pc = "idle" /\ pc' = "received") =>
           IF store[req'.conversation_id].exists
             THEN /\ memory' = GetConversation(store, req'.conversation_id)
                  /\ store' = store
             ELSE store'[req'.conversation_id].user_id = req'.user_id
      /\ (pc = "turn_added" /\ pc' = "idle") =>
           LET c == req.conversation_id
               T == Turns(store', c)
           IN  /\ store'[c].user_id = memory.user_id
               /\ Len(T) = Len(memory.turns) + 1
               /\ T[Len(T)].user_message = req.message
               /\ \A k \in DOMAIN ctx.entities :
                    k \in DOMAIN store'[c].slots /\ store'[c].slots[k].value = ctx.entities[k] ]_vars

\* the second turn of a conversation was sent by another user than its
\* creator: it is stored with its slots, and the owner is the creator
C29_Witness ==
  /\ pc = "idle"
  /\ started = 2
  /\ req.user_id = "u2"
  /\ store[req.conversation_id].user_id = "u1"
  /\ memory.user_id = "u1"
  /\ Len(Turns(store, req.conversation_id)) = 2
  /\ Turns(store, req.conversation_id)[2].user_message = req.message
  /\ DOMAIN ctx.entities # {}
  /\ out.conversation_id = req.conversation_id

\* C30: the execution history never holds more than 100 entries, and each
\* logging step (an attempt that succeeded or raised) either appends one
\* entry, that of the attempt, or appends it and drops the oldest, so the log
\* is always the most recently logged entries in their original order; a step
\* that logs nothing leaves the log as it is.
C30_HistoryBounded ==
  [][ LET h == execution_history
          g == execution_history'
          a == ex'.attempts[Len(ex'.attempts)]
      IN  /\ Len(g) <= HistoryCap
          /\ IF a.outcome = "failed" THEN g = h
             ELSE /\ g[Len(g)].status = AttemptTag(a)
                  /\ g[Len(g)].action_type = Chain(decision)[a.idx + 1].action_type
                  /\ g[Len(g)].reasoning = Chain(decision)[a.idx + 1].reasoning
                  /\ IF Len(h) < HistoryCap
                       THEN g = Append(h, g[Len(g)])
                       ELSE g = Append(Tail(h), g[Len(g)]) ]_vars

\* a call on a full log logged the raising primary and the succeeding
\* fallback: the two oldest entries are gone and the new ones are last
C30_Witness ==
  /\ pc = "executed"
  /\ Len(execution_history) = HistoryCap
  /\ execution_history[1] = EarlierEntry(3)
  /\ execution_history[HistoryCap - 2] = EarlierEntry(HistoryCap)
  /\ execution_history[HistoryCap - 1].status = "error"
  /\ execution_history[HistoryCap].status = "fallback_success"

====
